---- MODULE Spec2Model ----
(***************************************************************************)
(* BunkrDownloader: the download-and-retry engine.                         *)
(*                                                                         *)
(*   Spec          one call of save_file_with_progress                     *)
(*                 (src/src/downloaders/download_utils.py): content-length *)
(*                 resolution, the background HEAD probe, the chunk loop,  *)
(*                 progress reporting and the finalising rename.           *)
(*   SpecDownload  one call of MediaDownloader.download                    *)
(*                 (src/src/downloaders/media_downloader.py): skip rules,  *)
(*                 the attempt loop, the failure classifier and the        *)
(*                 status lookup of src/src/bunkr_utils.py.                *)
(*                                                                         *)
(* Percentages are carried as whole percents, floor(p) of the float p the  *)
(* code computes.  floor commutes with min and max, floor(p) = 100 iff     *)
(* p = 100 for p <= 100, and floor(p) = 99 iff p = 99 for p <= 99, so the  *)
(* values 99 and 100 the code singles out are exact.                       *)
(***************************************************************************)
EXTENDS Integers, Sequences, FiniteSets, TLC

\* ------------------------------------------------------------------ bounds
\* Chunks delivered by one response stream.
MaxChunks == 3
\* Upper end of the retries budgets a MediaDownloader is created with.
MaxRetries == 3
\* Chunks one of several concurrent streams delivers.
StreamChunks == 2
\* How far around each threshold the sampled file sizes reach.
MaxDelta == 1
\* The largest retries budget of a MediaDownloader in SpecAttempts.
MaxAttempts == 4
\* Threads that call refresh_server_status at the same time.
NumWorkers == 2
\* Seconds the clock advances while they do.
MaxTicks == 2
\* Calls of publish() on one broker.
MaxEvents == 3
\* URLs of one web job.
MaxUrls == 2

\* ------------------------------------------------------- program constants
DEFAULT_UNKNOWN_SIZE_BASELINE == 52428800
KB == 1024
MB == 1048576
GB == 1073741824
LARGE_FILE_CHUNK_SIZE == 16777216

\* Python's None for optional integers (lengths are positive when present).
None == -1

Min(a, b) == IF a <= b THEN a ELSE b
Max(a, b) == IF a >= b THEN a ELSE b

\* ------------------------------------------------------------ input values
\* A raw metadata value handed to _normalise_length: absent (None), a string
\* int() rejects, or an integer (a digit string or an int).
Absent == [k |-> "none", v |-> 0]
Garbage == [k |-> "text", v |-> 0]
Num(n) == [k |-> "int", v |-> n]

\* Content-Length header values and transport length_remaining hints.
HeaderValues == {Absent, Garbage, Num(-1), Num(0), Num(4)}
RawValues == {Absent, Num(0), Num(6)}
\* What the HEAD probe can return: None or a positive length.
ProbeResults == {None, 4, 100004}
\* Sizes of the chunks iter_content can yield; NoneChunk is a None chunk.
NoneChunk == -1
ChunkSizes == {NoneChunk, 0, 2, 100000}
\* The narrower responses served to a whole download() call.
DownloadHeaderValues == {Absent, Num(4)}
DownloadProbeResults == {None, 4}
DownloadChunkSizes == {2}

\* A file name as its dot-separated components: clip.mp4 is <<"clip","mp4">>.
FinalPaths == {<<"clip", "mp4">>, <<"clip">>, <<"clip", "temp">>}

\* Path.with_suffix(suffix): the last suffix is replaced, or the suffix is
\* added when the name has none.
with_suffix(path, suffix) ==
    IF Len(path) > 1
    THEN [path EXCEPT ![Len(path)] = suffix]
    ELSE Append(path, suffix)

\* <final-path>.temp, the temp name the documentation describes.
appended_temp(path) == Append(path, "temp")

AllPaths == FinalPaths \cup {with_suffix(p, "temp") : p \in FinalPaths}
                       \cup {appended_temp(p) : p \in FinalPaths}

\* ---------------------------------------------------------------- state
VARIABLES
    pc,               \* position of save_file_with_progress
    header,           \* response.headers.get("Content-Length")
    raw_remaining,    \* response.raw.length_remaining
    download_url,     \* TRUE when a download_url is supplied
    download_path,    \* the final path
    file_size,        \* None or the known length
    estimator,        \* <<>> (None) or <<[baseline, estimate]>>
    total_downloaded,
    nchunks,          \* chunks yielded so far by iter_content
    head_future,      \* "none" | "pending" | "done" | "consumed"
    head_result,      \* what _head_content_length returned
    head_calls,       \* submissions of _head_content_length
    head_reads,       \* calls of head_future.result()
    head_executor,    \* "none" | "running" | "shutdown"
    fs,               \* path -> bytes in the file, None when it does not exist
    moved,            \* shutil.move succeeded in this call
    history,          \* update_task calls: [completed, mode, moved]
    log_once,         \* "Download progress" log events
    result,           \* "running" | "False" | "True" | "OSError" | "RequestException"
    raised,           \* the exception that ended the chunk loop or left the call: "none" | "ChunkedEncodingError" | "RequestException" | "OSError"
    chunk_size        \* the chunk_size handed to iter_content, None before line 196

wvars == <<pc, header, raw_remaining, download_url, download_path, file_size,
           estimator, total_downloaded, nchunks, head_future, head_result,
           head_calls, head_reads, head_executor, fs, moved, history, log_once,
           result, raised, chunk_size>>

VARIABLES
    dpc,              \* position of download(): "off" | "init" | "loop" | "saving" | "returned" | "raised"
    retries,          \* self.retries
    budget,           \* the retries the MediaDownloader was created with
    attempt,          \* index of the attempt loop
    args,             \* session_info.args: [maintenance_strategy, skip_status_check, ignore, include]
    bunkr_status,     \* session_info.bunkr_status: subdomain -> status
    status_cache,     \* _status_cache: <<>> or <<[fetch_time, status]>>
    now,              \* the wall clock, in seconds
    task,             \* the task row: [visible]
    events,           \* what the call did, in order: requests, log events, sleeps, session log lines
    failure,          \* the last classified failure: <<>> or <<[err, attempt, current, at]>>
    ret               \* "running" | "None" | "Deferred" | the exception raised

dvars == <<dpc, retries, budget, attempt, args, bunkr_status, status_cache, now,
           task, events, failure, ret>>

VARIABLES
    workers           \* threads inside refresh_server_status: worker -> [pc, now, fresh]

svars == <<workers>>

VARIABLES
    writers,          \* concurrent save_file_with_progress calls: worker -> [pc, download_path, file_size, total_downloaded, fd, result]
    names,            \* the download directory: path -> inode, 0 when the name does not exist
    inodes            \* inode -> the workers whose bytes the file holds

cvars == <<writers, names, inodes>>

\* No concurrent writers are running.
NoWriters == writers = <<>> /\ names = <<>> /\ inodes = <<>>

VARIABLES
    event_broker,     \* a JobEventBroker: [_events, queues], queues being the queue of each member of _subscribers
    ready,            \* the loop's FIFO of call_soon_threadsafe callbacks: the events to broadcast
    subscribers,      \* subscribe() generators: subscriber -> [pc, replayed, received]
    calls,            \* the events in the order publish() was called
    client            \* a client polling /events: [since, seen, polls]

bvars == <<event_broker, ready, subscribers, calls, client>>

\* No broker is under observation.
NoBroker ==
    event_broker = <<>> /\ ready = <<>> /\ subscribers = <<>> /\ calls = <<>> /\ client = <<>>

VARIABLES
    jobs,             \* the job store: job -> [status, pc, urls, network, events, error, observed]
    config            \* the module globals of config.py that update_network_settings writes

jvars == <<jobs, config>>

\* No web job has been submitted.
NoJobs == jobs = <<>> /\ config = <<>>

webvars == <<bvars, jvars>>

NoWeb == NoBroker /\ NoJobs

vars == <<wvars, dvars, svars, cvars, webvars>>

\* --------------------------------------------------- content-length resolver
\* _normalise_length: int(value), None on TypeError/ValueError, and None
\* unless the number is positive.
_normalise_length(value) ==
    IF value.k = "int" /\ value.v > 0 THEN value.v ELSE None

\* Faulty variant: the transport hint is taken before the header.
_extract_response_length_hint_first(hdr, rawlen) ==
    IF _normalise_length(rawlen) # None THEN _normalise_length(rawlen)
    ELSE IF _normalise_length(hdr) # None THEN _normalise_length(hdr)
    ELSE None

\* _extract_response_length: the header first, then the transport hint.
_extract_response_length(hdr, rawlen) ==
    IF _normalise_length(hdr) # None THEN _normalise_length(hdr)
    ELSE IF _normalise_length(rawlen) # None THEN _normalise_length(rawlen)
    ELSE None

\* Faulty variant: the probe is submitted whether or not a URL was supplied.
_resolve_content_length_ignores_url(hdr, rawlen, url) ==
    LET length == _extract_response_length(hdr, rawlen)
    IN  IF length # None
        THEN [length |-> length, probe |-> FALSE]
        ELSE [length |-> None, probe |-> TRUE]

\* _resolve_content_length: <<length, probe submitted>>.
_resolve_content_length(hdr, rawlen, url) ==
    LET length == _extract_response_length(hdr, rawlen)
    IN  IF length # None \/ ~url
        THEN [length |-> length, probe |-> FALSE]
        ELSE [length |-> None, probe |-> TRUE]

\* get_chunk_size over THRESHOLDS.
THRESHOLDS == << <<1 * MB, 32 * KB>>, <<10 * MB, 128 * KB>>, <<50 * MB, 512 * KB>>,
                 <<100 * MB, 1 * MB>>, <<250 * MB, 2 * MB>>, <<500 * MB, 4 * MB>>,
                 <<1 * GB, 8 * MB>> >>

\* Faulty variant: a size on a threshold stays in the smaller tier.
get_chunk_size_inclusive(size) ==
    LET hits == {i \in 1..Len(THRESHOLDS) : size <= THRESHOLDS[i][1]}
    IN  IF hits = {} THEN LARGE_FILE_CHUNK_SIZE
        ELSE THRESHOLDS[CHOOSE i \in hits : \A j \in hits : i <= j][2]

get_chunk_size(size) ==
    LET hits == {i \in 1..Len(THRESHOLDS) : size < THRESHOLDS[i][1]}
    IN  IF hits = {} THEN LARGE_FILE_CHUNK_SIZE
        ELSE THRESHOLDS[CHOOSE i \in hits : \A j \in hits : i <= j][2]

\* --------------------------------------------------------- progress estimator
\* LogThreshold[k+1] is the least n with floor(math.log10(n) * 20.0) >= k,
\* for k = 0..100, taken from the float expression of the code.
LogThreshold ==
    <<1, 2, 2, 2, 2, 2, 2, 3, 3, 3, 4, 4, 4, 5, 6, 6, 7, 8, 8, 9,
      10, 12, 13, 15, 16, 18, 20, 23, 26, 29, 32, 36, 40, 45, 51, 57, 64, 71, 80, 90,
      100, 113, 126, 142, 159, 178, 200, 224, 252, 282, 317, 355, 399, 447, 502, 563,
      631, 708, 795, 892, 1000, 1123, 1259, 1413, 1585, 1779, 1996, 2239, 2512, 2819,
      3163, 3549, 3982, 4467, 5012, 5624, 6310, 7080, 7944, 8913, 10000, 11221, 12590,
      14126, 15849, 17783, 19953, 22388, 25119, 28184, 31623, 35482, 39811, 44669,
      50119, 56235, 63096, 70795, 79433, 89126, 100000>>

\* floor(math.log10(n) * 20.0) for n >= 1, cut at 100 (the estimator cuts at
\* 99 itself).
log_scaled(n) ==
    LET ks == {k \in 0..100 : LogThreshold[k + 1] <= n}
    IN  CHOOSE k \in ks : \A j \in ks : j <= k

\* _ProgressEstimator.__init__
new_estimator(baseline) ==
    [baseline |-> IF baseline > 0 THEN baseline ELSE DEFAULT_UNKNOWN_SIZE_BASELINE,
     estimate |-> 0]

\* Faulty variant: the estimate is cut at 100 instead of 99.
estimator_update_cut_at_100(est, downloaded_bytes) ==
    IF downloaded_bytes <= 0 THEN est
    ELSE LET base == IF est.baseline <= 0 THEN downloaded_bytes ELSE est.baseline
             linear_progress == (downloaded_bytes * 100) \div base
             log_scaled_progress == log_scaled(downloaded_bytes + 1)
         IN  [baseline |-> base,
              estimate |-> Min(100, Max(est.estimate,
                                        Max(linear_progress, log_scaled_progress)))]

\* _ProgressEstimator.update: the estimator after the call (its estimate is
\* the value returned).
estimator_update(est, downloaded_bytes) ==
    IF downloaded_bytes <= 0 THEN est
    ELSE LET base == IF est.baseline <= 0 THEN downloaded_bytes ELSE est.baseline
             linear_progress == (downloaded_bytes * 100) \div base
             log_scaled_progress == log_scaled(downloaded_bytes + 1)
         IN  [baseline |-> base,
              estimate |-> Min(99, Max(est.estimate,
                                       Max(linear_progress, log_scaled_progress)))]

\* Faulty variant: the percentage is not cut at 100.
exact_percentage_uncut(total, size) == (total * 100) \div size

\* Faulty variant: the percentage still to download is reported.
exact_percentage_remaining(total, size) == 100 - Min(100, (total * 100) \div size)

\* min(100.0, (total_downloaded / file_size) * 100)
exact_percentage(total, size) == Min(100, (total * 100) \div size)

\* ------------------------------------------------------------ stream writer
\* The file system after shutil.move(src, dst).
move(files, src, dst) ==
    IF src = dst THEN files
    ELSE [files EXCEPT ![dst] = files[src], ![src] = None]

\* Path(download_path).with_suffix(".temp")
temp_download_path == with_suffix(download_path, "temp")

\* One update_task(task, completed=...) call as the sink records it.
update_task(completed, mode) ==
    [completed |-> completed, mode |-> mode, moved |-> moved]

\* Faulty variant: the update is estimated even when the length is known.
_emit_progress_always_estimated(size, est, total) ==
    LET e0 == IF est # <<>> THEN est[1]
              ELSE [baseline |-> DEFAULT_UNKNOWN_SIZE_BASELINE, estimate |-> 0]
        e1 == estimator_update(e0, total)
    IN  [update |-> update_task(e1.estimate, "estimate"), estimator |-> <<e1>>]

\* _emit_progress: the update it reports and the estimator it returns.
_emit_progress(size, est, total) ==
    IF size # None
    THEN [update |-> update_task(exact_percentage(total, size), "exact"),
          estimator |-> est]
    ELSE LET e0 == IF est # <<>> THEN est[1]
                   ELSE new_estimator(DEFAULT_UNKNOWN_SIZE_BASELINE)
             e1 == estimator_update(e0, total)
         IN  [update |-> update_task(e1.estimate, "estimate"),
              estimator |-> <<e1>>]

WriterInit ==
    /\ pc = "start"
    /\ header \in HeaderValues
    /\ raw_remaining \in RawValues
    /\ download_url \in BOOLEAN
    /\ download_path \in FinalPaths
    /\ file_size = None
    /\ estimator = <<>>
    /\ total_downloaded = 0
    /\ nchunks = 0
    /\ head_future = "none"
    /\ head_result = None
    /\ head_calls = 0
    /\ head_reads = 0
    /\ head_executor = "none"
    /\ \E stale \in {None, 1} :
         fs = [p \in AllPaths |->
                 IF p = with_suffix(download_path, "temp") /\ p # download_path
                 THEN stale ELSE None]
    /\ moved = FALSE
    /\ history = <<>>
    /\ log_once = 0
    /\ result = "running"
    /\ raised = "none"
    /\ chunk_size = None
    /\ dpc = "off"
    /\ retries = 1
    /\ budget = 1
    /\ attempt = 0
    /\ args = [maintenance_strategy |-> "backoff", skip_status_check |-> FALSE,
               ignore |-> <<>>, include |-> <<>>]
    /\ bunkr_status = [x \in {} |-> <<"Unknown">>]
    /\ status_cache = <<>>
    /\ now = 0
    /\ task = [visible |-> TRUE]
    /\ events = <<>>
    /\ failure = <<>>
    /\ ret = "running"
    /\ workers = <<>>
    /\ NoWriters
    /\ NoWeb

\* save_file_with_progress, lines 186-205: resolve the length, submit the
\* probe, create the estimator and open the temp file for writing.
Resolve ==
    /\ pc = "start"
    /\ LET r == _resolve_content_length(header, raw_remaining, download_url)
       IN  /\ file_size' = r.length
           /\ head_future' = IF r.probe THEN "pending" ELSE "none"
           /\ head_executor' = IF r.probe THEN "running" ELSE "none"
           /\ head_calls' = IF r.probe THEN head_calls + 1 ELSE head_calls
           /\ log_once' = IF r.length = None THEN log_once + 1 ELSE log_once
           /\ estimator' = IF r.length = None
                           THEN <<new_estimator(DEFAULT_UNKNOWN_SIZE_BASELINE)>>
                           ELSE <<>>
    /\ total_downloaded' = 0
    /\ fs' = [fs EXCEPT ![temp_download_path] = 0]
    /\ pc' = "stream"
    /\ UNCHANGED <<header, raw_remaining, download_url, download_path, nchunks,
                   head_result, head_reads, moved, history, result, raised>>
    /\ chunk_size' = get_chunk_size(IF file_size' = None THEN 0 ELSE file_size')
    /\ UNCHANGED dvars
    /\ UNCHANGED svars
    /\ UNCHANGED cvars
    /\ UNCHANGED webvars

\* _head_content_length returns on the executor's thread.
ProbeDone ==
    /\ head_future = "pending"
    /\ head_executor = "running"
    /\ \E r \in (IF dpc = "off" THEN ProbeResults ELSE DownloadProbeResults) :
         head_result' = r
    /\ head_future' = "done"
    /\ UNCHANGED <<pc, header, raw_remaining, download_url, download_path,
                   file_size, estimator, total_downloaded, nchunks, head_calls,
                   head_reads, head_executor, fs, moved, history, log_once, result,
                   raised>>
    /\ UNCHANGED chunk_size
    /\ UNCHANGED dvars
    /\ UNCHANGED svars
    /\ UNCHANGED cvars
    /\ UNCHANGED webvars

\* Faulty variant: the chunk loop waits for the probe (head_future.result()
\* is awaited) before it handles a chunk.
Chunk_awaits_probe ==
    /\ pc = "stream"
    /\ head_future # "pending"
    /\ nchunks < MaxChunks
    /\ nchunks' = nchunks + 1
    /\ \E n \in (IF dpc = "off" THEN ChunkSizes ELSE DownloadChunkSizes) :
         IF n = NoneChunk
         THEN UNCHANGED <<file_size, estimator, total_downloaded, head_future,
                          head_reads, fs, history>>
         ELSE LET total == total_downloaded + n
                  emit == _emit_progress(file_size, estimator, total)
                  poll == head_future = "done" /\ file_size = None
                  upgrade == poll /\ head_result # None /\ head_result # 0
              IN  /\ total_downloaded' = total
                  /\ fs' = [fs EXCEPT ![temp_download_path] = @ + n]
                  /\ head_future' = IF poll THEN "consumed" ELSE head_future
                  /\ head_reads' = IF poll THEN head_reads + 1 ELSE head_reads
                  /\ file_size' = IF upgrade THEN head_result ELSE file_size
                  /\ estimator' = IF upgrade THEN <<>> ELSE emit.estimator
                  /\ history' =
                       IF upgrade
                       THEN history \o <<emit.update,
                               update_task(exact_percentage(total, head_result), "exact")>>
                       ELSE Append(history, emit.update)
    /\ UNCHANGED <<pc, header, raw_remaining, download_url, download_path,
                   head_result, head_calls, head_executor, moved, log_once, result,
                   raised>>
    /\ UNCHANGED chunk_size
    /\ UNCHANGED dvars
    /\ UNCHANGED svars
    /\ UNCHANGED cvars
    /\ UNCHANGED webvars

\* One iteration of the chunk loop, lines 206-230.
Chunk ==
    /\ pc = "stream"
    /\ nchunks < MaxChunks
    /\ nchunks' = nchunks + 1
    /\ \E n \in (IF dpc = "off" THEN ChunkSizes ELSE DownloadChunkSizes) :
         IF n = NoneChunk
         THEN UNCHANGED <<file_size, estimator, total_downloaded, head_future,
                          head_reads, fs, history>>
         ELSE LET total == total_downloaded + n
                  emit == _emit_progress(file_size, estimator, total)
                  poll == head_future = "done" /\ file_size = None
                  upgrade == poll /\ head_result # None /\ head_result # 0
              IN  /\ total_downloaded' = total
                  /\ fs' = [fs EXCEPT ![temp_download_path] = @ + n]
                  /\ head_future' = IF poll THEN "consumed" ELSE head_future
                  /\ head_reads' = IF poll THEN head_reads + 1 ELSE head_reads
                  /\ file_size' = IF upgrade THEN head_result ELSE file_size
                  /\ estimator' = IF upgrade THEN <<>> ELSE emit.estimator
                  /\ history' =
                       IF upgrade
                       THEN history \o <<emit.update,
                               update_task(exact_percentage(total, head_result), "exact")>>
                       ELSE Append(history, emit.update)
    /\ UNCHANGED <<pc, header, raw_remaining, download_url, download_path,
                   head_result, head_calls, head_executor, moved, log_once, result,
                   raised>>
    /\ UNCHANGED chunk_size
    /\ UNCHANGED dvars
    /\ UNCHANGED svars
    /\ UNCHANGED cvars
    /\ UNCHANGED webvars

\* The finally clause: head_executor.shutdown(wait=False, cancel_futures=True).
shutdown(ex) == IF ex = "none" THEN "none" ELSE "shutdown"

\* iter_content raises ChunkedEncodingError: return True.
ChunkedError ==
    /\ pc = "stream"
    /\ pc' = "done"
    /\ result' = "True"
    /\ raised' = "ChunkedEncodingError"
    /\ head_executor' = shutdown(head_executor)
    /\ UNCHANGED <<header, raw_remaining, download_url, download_path, file_size,
                   estimator, total_downloaded, nchunks, head_future, head_result,
                   head_calls, head_reads, fs, moved, history, log_once>>
    /\ UNCHANGED chunk_size
    /\ UNCHANGED dvars
    /\ UNCHANGED svars
    /\ UNCHANGED cvars
    /\ UNCHANGED webvars

\* iter_content raises another RequestException (connection lost, read
\* timeout): nothing catches it in save_file_with_progress.
StreamError ==
    /\ pc = "stream"
    /\ pc' = "done"
    /\ result' = "RequestException"
    /\ raised' = "RequestException"
    /\ head_executor' = shutdown(head_executor)
    /\ UNCHANGED <<header, raw_remaining, download_url, download_path, file_size,
                   estimator, total_downloaded, nchunks, head_future, head_result,
                   head_calls, head_reads, fs, moved, history, log_once>>
    /\ UNCHANGED chunk_size
    /\ UNCHANGED dvars
    /\ UNCHANGED svars
    /\ UNCHANGED cvars
    /\ UNCHANGED webvars

\* Faulty variant: with an unknown length, 100 is reported before the rename is
\* tried.
_finalise_download_reports_first(size, total, rename_ok) ==
    IF size # None
    THEN IF total # size
         THEN [result |-> "True", moved |-> FALSE, reported |-> FALSE]
         ELSE IF rename_ok
         THEN [result |-> "False", moved |-> TRUE, reported |-> TRUE]
         ELSE [result |-> "OSError", moved |-> FALSE, reported |-> FALSE]
    ELSE IF rename_ok
         THEN [result |-> "False", moved |-> TRUE, reported |-> TRUE]
         ELSE [result |-> "True", moved |-> FALSE, reported |-> TRUE]

\* _finalise_download with the outcome of shutil.move: the value returned (or
\* the exception raised), whether the file moved, and whether
\* update_task(task, completed=100) was called.
_finalise_download(size, total, rename_ok) ==
    IF size # None
    THEN IF total # size
         THEN [result |-> "True", moved |-> FALSE, reported |-> FALSE]
         ELSE IF rename_ok
         THEN [result |-> "False", moved |-> TRUE, reported |-> TRUE]
         ELSE [result |-> "OSError", moved |-> FALSE, reported |-> FALSE]
    ELSE IF rename_ok
         THEN [result |-> "False", moved |-> TRUE, reported |-> TRUE]
         ELSE [result |-> "True", moved |-> FALSE, reported |-> FALSE]

\* The stream ends: the temp file is closed, the executor shut down and
\* _finalise_download decides the result.
StreamEnd ==
    /\ pc = "stream"
    /\ pc' = "done"
    /\ head_executor' = shutdown(head_executor)
    /\ \E rename_ok \in BOOLEAN :
         LET f == _finalise_download(file_size, total_downloaded, rename_ok)
         IN  /\ result' = f.result
             /\ raised' = IF f.result = "OSError" THEN "OSError" ELSE "none"
             /\ moved' = f.moved
             /\ fs' = IF f.moved THEN move(fs, temp_download_path, download_path)
                      ELSE fs
             /\ history' = IF f.reported
                           THEN Append(history,
                                  [completed |-> 100, mode |-> "final", moved |-> f.moved])
                           ELSE history
    /\ UNCHANGED <<header, raw_remaining, download_url, download_path, file_size,
                   estimator, total_downloaded, nchunks, head_future, head_result,
                   head_calls, head_reads, log_once>>
    /\ UNCHANGED chunk_size
    /\ UNCHANGED dvars
    /\ UNCHANGED svars
    /\ UNCHANGED cvars
    /\ UNCHANGED webvars


\* ------------------------------------------------------------ server status
\* A status string as its words: "Scheduled MAINTENANCE" is
\* <<"Scheduled", "MAINTENANCE">>.  Substring tests are made on whole words.
Operational == <<"Operational">>
NonOperational == <<"Non-operational">>
Unknown == <<"Unknown">>
Maintenance == <<"Maintenance">>
ScheduledMaintenance == <<"Scheduled", "MAINTENANCE">>

\* str.lower() on one word.
lower_word(w) ==
    CASE w = "Maintenance" -> "maintenance"
      [] w = "MAINTENANCE" -> "maintenance"
      [] w = "Scheduled" -> "scheduled"
      [] w = "Operational" -> "operational"
      [] w = "Non-operational" -> "non-operational"
      [] w = "Unknown" -> "unknown"
      [] OTHER -> w

lower(s) == [i \in 1..Len(s) |-> lower_word(s[i])]

\* word in s
contains(s, word) == \E i \in 1..Len(s) : s[i] = word

\* "Maintenance" in current_status or "maintenance" in current_status.lower()
mentions_maintenance(s) ==
    contains(s, "Maintenance") \/ contains(lower(s), "maintenance")

\* A status map is a function from some subdomains to status strings.
EmptyMap == [x \in {} |-> Unknown]
get(map, key, default) == IF key \in DOMAIN map THEN map[key] ELSE default
put(map, key, value) == (key :> value) @@ map

\* What get_bunkr_status() can return: {} when the page cannot be fetched or
\* parsed, else the servers it lists.
StatusPages == {EmptyMap,
                "Cdn" :> Operational,
                "Cdn" :> Maintenance,
                "Cdn" :> ScheduledMaintenance,
                "Media" :> Operational}

\* get_subdomain(download_link): the first host label, capitalised.  The
\* file of the model is served from cdn.<domain>.
get_subdomain == "Cdn"

\* ------------------------------------------------------------------ events
\* One entry of the trace of a download() call: a call of requests.get for
\* the file, of get_bunkr_status, time.sleep, update_log, update_task,
\* log_maintenance_event or write_on_session_log.
Event(e, name, n) == [e |-> e, name |-> name, n |-> n]
Get(att) == Event("get", "file", att)
Fetch == Event("fetch", "status page", 0)
Log(name, n) == Event("log", name, n)
Sleep(kind, delay) == Event("sleep", kind, delay)
SessionLog(name) == Event("session", name, 0)
TaskUpdate(name, completed) == Event("task", name, completed)

\* Faulty variant: no subdomain is ever reported offline.
subdomain_is_offline_never(status, page) ==
    [offline |-> FALSE, fetched |-> status = EmptyMap]

\* get_offline_servers / subdomain_is_offline: whether the subdomain is
\* offline, and whether the status page was fetched to find out.
subdomain_is_offline(status, page) ==
    LET fetched == status = EmptyMap
        used == IF fetched THEN page ELSE status
    IN  [offline |-> get_subdomain \in DOMAIN used /\ used[get_subdomain] # Operational,
         fetched |-> fetched]

\* Faulty variant: the status map is left as it was.
mark_subdomain_as_offline_forgets(status) == status

\* mark_subdomain_as_offline
mark_subdomain_as_offline(status) == put(status, get_subdomain, NonOperational)

\* refresh_server_status at clock t; page is what get_bunkr_status() returns
\* if it is called.
refresh_server_status(subdomain, status, cache, t, ttl, page) ==
    IF cache # <<>> /\ t - cache[1].fetch_time < ttl
    THEN [current |-> get(cache[1].status, subdomain, Unknown),
          was_updated |-> FALSE,
          fetched |-> FALSE,
          status |-> IF subdomain \in DOMAIN cache[1].status
                     THEN put(status, subdomain, cache[1].status[subdomain])
                     ELSE status,
          cache |-> cache]
    ELSE IF page # EmptyMap
    THEN [current |-> get(page, subdomain, Unknown),
          was_updated |-> TRUE,
          fetched |-> TRUE,
          status |-> page @@ status,
          cache |-> <<[fetch_time |-> t, status |-> page]>>]
    ELSE [current |-> get(status, subdomain, Unknown),
          was_updated |-> FALSE,
          fetched |-> TRUE,
          status |-> status,
          cache |-> cache]

\* ------------------------------------------------------- failure classifier
\* HTTPStatus, and the settings the handler reads.
TOO_MANY_REQUESTS == 429
BAD_GATEWAY == 502
SERVICE_UNAVAILABLE == 503
SERVER_DOWN == 521
FORBIDDEN == 403
STATUS_CHECK_ON_FAILURE == TRUE
StatusCacheTtl == 60

\* A RequestException: response is FALSE when req_err.response is None.
ConnectionLost == [response |-> FALSE, status_code |-> 0]
HttpError(code) == [response |-> TRUE, status_code |-> code]
RequestErrors == {ConnectionLost} \cup
    {HttpError(c) : c \in {SERVER_DOWN, TOO_MANY_REQUESTS, SERVICE_UNAVAILABLE,
                           BAD_GATEWAY, FORBIDDEN}}

RECURSIVE pow3(_)
pow3(n) == IF n = 0 THEN 1 ELSE 3 * pow3(n - 1)

\* Faulty variant: the table stops at five minutes.
delay_minutes_short == <<2, 5>>

\* delay_minutes = [2, 5, 10]
delay_minutes == <<2, 5, 10>>

\* Faulty variant: the standard delay grows linearly, 3 * (attempt + 1).
base_delay_linear(att, maintenance_delay) ==
    IF maintenance_delay
    THEN delay_minutes[Min(att, Len(delay_minutes) - 1) + 1] * 60
    ELSE 3 * (att + 1)

\* The delay before random.uniform is added: the sleep lasts
\* base + jitter, jitter in [1, 10] for a maintenance delay and in [1, 3]
\* for a standard one.
base_delay(att, maintenance_delay) ==
    IF maintenance_delay
    THEN delay_minutes[Min(att, Len(delay_minutes) - 1) + 1] * 60
    ELSE pow3(att + 1)

jitter_lo(kind) == 1
jitter_hi(kind) == IF kind = "maintenance" THEN 10 ELSE 3

\* Faulty variant: the sleep comes before the log event.
_retry_with_backoff_sleeps_first(att, rt, event, maintenance_delay) ==
    LET kind == IF maintenance_delay THEN "maintenance" ELSE "standard"
    IN  IF att < rt - 1
        THEN [retry |-> TRUE,
              events |-> <<Sleep(kind, base_delay(att, maintenance_delay)),
                           Log(event, att + 1)>>,
              slept |-> base_delay(att, maintenance_delay) + jitter_lo(kind)]
        ELSE [retry |-> FALSE, events |-> <<Log(event, att + 1)>>, slept |-> 0]

\* Faulty variant: the retry is granted without sleeping.
_retry_with_backoff_no_sleep(att, rt, event, maintenance_delay) ==
    IF att < rt - 1
    THEN [retry |-> TRUE, events |-> <<Log(event, att + 1)>>, slept |-> 0]
    ELSE [retry |-> FALSE, events |-> <<Log(event, att + 1)>>, slept |-> 0]

\* Faulty variant: the backoff is slept through even when no attempt is left.
_retry_with_backoff_always_sleeps(att, rt, event, maintenance_delay) ==
    LET kind == IF maintenance_delay THEN "maintenance" ELSE "standard"
    IN  [retry |-> att < rt - 1,
         events |-> <<Log(event, att + 1),
                      Sleep(kind, base_delay(att, maintenance_delay))>>,
         slept |-> base_delay(att, maintenance_delay) + jitter_lo(kind)]

\* _retry_with_backoff: the log event, the sleep if attempts remain, and
\* whether to retry.
_retry_with_backoff(att, rt, event, maintenance_delay) ==
    LET kind == IF maintenance_delay THEN "maintenance" ELSE "standard"
    IN  IF att < rt - 1
        THEN [retry |-> TRUE,
              events |-> <<Log(event, att + 1),
                           Sleep(kind, base_delay(att, maintenance_delay))>>,
              slept |-> base_delay(att, maintenance_delay) + jitter_lo(kind)]
        ELSE [retry |-> FALSE, events |-> <<Log(event, att + 1)>>, slept |-> 0]

\* Faulty variant: the strategy is not read, the long backoff always applies.
maintenance_strategy_branch_always_backoff(strategy, att, rt) ==
    _retry_with_backoff(att, rt, "Waiting for maintenance", TRUE)

\* Lines 244-265: the configured strategy decides after a maintenance status
\* was logged.
maintenance_strategy_branch(strategy, att, rt) ==
    IF strategy = "skip"
    THEN [retry |-> FALSE, events |-> <<Log("Maintenance skip", att + 1)>>, slept |-> 0]
    ELSE _retry_with_backoff(att, rt, "Waiting for maintenance", TRUE)

\* What a branch of the handler hands back: the decision, the trace, the
\* seconds slept, the session status map, the cache, self.retries, and the
\* status that was looked up (<<>> when none was).
Outcome(b, pre, refreshed, status, cache, rt, current) ==
    [retry |-> b.retry,
     events |-> (IF refreshed THEN <<Fetch>> ELSE <<>>) \o pre \o b.events,
     slept |-> b.slept,
     bunkr_status |-> status,
     status_cache |-> cache,
     retries |-> rt,
     current |-> current]

NoRetry(event, att) == [retry |-> FALSE, events |-> <<Log(event, att + 1)>>, slept |-> 0]

\* Faulty variant: an "Operational" status is not treated as transient.
server_down_branch_no_transient(att, rt, a, status, cache, t, page) ==
    LET check == STATUS_CHECK_ON_FAILURE /\ ~a.skip_status_check
        r == refresh_server_status(get_subdomain, status, cache, t, StatusCacheTtl, page)
    IN  IF check /\ mentions_maintenance(r.current)
        THEN Outcome(maintenance_strategy_branch(a.maintenance_strategy, att, rt),
                     <<SessionLog("maintenance"), Log("Maintenance detected", att + 1)>>,
                     r.fetched, r.status, r.cache, rt, <<r.current>>)
        ELSE IF check
        THEN Outcome(NoRetry("No response", att), <<>>, r.fetched,
                     mark_subdomain_as_offline(r.status), r.cache, rt, <<r.current>>)
        ELSE Outcome(NoRetry("No response", att), <<>>, FALSE,
                     mark_subdomain_as_offline(status), cache, rt, <<>>)

\* Lines 206-289: connection-level failure or SERVER_DOWN.
server_down_branch(att, rt, a, status, cache, t, page) ==
    LET check == STATUS_CHECK_ON_FAILURE /\ ~a.skip_status_check
        r == refresh_server_status(get_subdomain, status, cache, t, StatusCacheTtl, page)
    IN  IF check /\ mentions_maintenance(r.current)
        THEN Outcome(maintenance_strategy_branch(a.maintenance_strategy, att, rt),
                     <<SessionLog("maintenance"), Log("Maintenance detected", att + 1)>>,
                     r.fetched, r.status, r.cache, rt, <<r.current>>)
        ELSE IF check /\ r.current = Operational
        THEN Outcome(_retry_with_backoff(att, rt, "Retrying transient failure", FALSE),
                     <<Log("Transient error", att + 1)>>,
                     r.fetched, r.status, r.cache, rt, <<r.current>>)
        ELSE IF check
        THEN Outcome(NoRetry("No response", att), <<>>, r.fetched,
                     mark_subdomain_as_offline(r.status), r.cache, rt, <<r.current>>)
        ELSE Outcome(NoRetry("No response", att), <<>>, FALSE,
                     mark_subdomain_as_offline(status), cache, rt, <<>>)

\* Faulty variant: a bad gateway that is not maintenance leaves self.retries
\* as it was.
bad_gateway_branch_keeps_retries(att, rt, a, status, cache, t, page) ==
    LET check == STATUS_CHECK_ON_FAILURE /\ ~a.skip_status_check
        r == refresh_server_status(get_subdomain, status, cache, t, StatusCacheTtl, page)
    IN  IF check /\ mentions_maintenance(r.current)
        THEN Outcome(_retry_with_backoff(att, rt, "Waiting for maintenance", TRUE),
                     <<SessionLog("maintenance"), Log("Maintenance detected (502)", att + 1)>>,
                     r.fetched, r.status, r.cache, rt, <<r.current>>)
        ELSE IF check
        THEN Outcome(NoRetry("Server error", att), <<>>, r.fetched,
                     r.status, r.cache, rt, <<r.current>>)
        ELSE Outcome(NoRetry("Server error", att), <<>>, FALSE, status, cache, rt, <<>>)

\* Lines 297-340: BAD_GATEWAY.
bad_gateway_branch(att, rt, a, status, cache, t, page) ==
    LET check == STATUS_CHECK_ON_FAILURE /\ ~a.skip_status_check
        r == refresh_server_status(get_subdomain, status, cache, t, StatusCacheTtl, page)
    IN  IF check /\ mentions_maintenance(r.current)
        THEN Outcome(_retry_with_backoff(att, rt, "Waiting for maintenance", TRUE),
                     <<SessionLog("maintenance"), Log("Maintenance detected (502)", att + 1)>>,
                     r.fetched, r.status, r.cache, rt, <<r.current>>)
        ELSE IF check
        THEN Outcome(NoRetry("Server error", att), <<>>, r.fetched,
                     r.status, r.cache, 1, <<r.current>>)
        ELSE Outcome(NoRetry("Server error", att), <<>>, FALSE, status, cache, 1, <<>>)

\* Faulty variant: a status the handler does not know is retried with backoff.
_handle_request_exception_retries_unclassified(err, att, rt, a, status, cache, t, page) ==
    IF ~err.response \/ err.status_code = SERVER_DOWN
    THEN server_down_branch(att, rt, a, status, cache, t, page)
    ELSE IF err.status_code = BAD_GATEWAY
    THEN bad_gateway_branch(att, rt, a, status, cache, t, page)
    ELSE Outcome(_retry_with_backoff(att, rt, "Retrying download", FALSE),
                 <<>>, FALSE, status, cache, rt, <<>>)

\* _handle_request_exception(req_err, attempt).
_handle_request_exception(err, att, rt, a, status, cache, t, page) ==
    IF ~err.response \/ err.status_code = SERVER_DOWN
    THEN server_down_branch(att, rt, a, status, cache, t, page)
    ELSE IF err.status_code \in {TOO_MANY_REQUESTS, SERVICE_UNAVAILABLE}
    THEN Outcome(_retry_with_backoff(att, rt, "Retrying download", FALSE),
                 <<>>, FALSE, status, cache, rt, <<>>)
    ELSE IF err.status_code = BAD_GATEWAY
    THEN bad_gateway_branch(att, rt, a, status, cache, t, page)
    ELSE Outcome(NoRetry("Request error", att), <<>>, FALSE, status, cache, rt, <<>>)

\* Faulty variant: the failure is always reported as terminal.
_handle_failed_download_always_final(is_final_attempt) ==
    [ret |-> "None",
     events |-> <<Log("Download failed", 0), TaskUpdate("hidden", None)>>,
     hide |-> TRUE]

\* Faulty variant: the terminal failure leaves the task row on screen.
_handle_failed_download_leaves_row(is_final_attempt) ==
    IF ~is_final_attempt
    THEN [ret |-> "Deferred",
          events |-> <<Log("Exceeded retry attempts", 0)>>,
          hide |-> FALSE]
    ELSE [ret |-> "None",
          events |-> <<Log("Download failed", 0)>>,
          hide |-> FALSE]

\* _handle_failed_download: what download() returns, the trace, and whether
\* the task row stays visible.
_handle_failed_download(is_final_attempt) ==
    IF ~is_final_attempt
    THEN [ret |-> "Deferred",
          events |-> <<Log("Exceeded retry attempts", 0)>>,
          hide |-> FALSE]
    ELSE [ret |-> "None",
          events |-> <<Log("Download failed", 0), TaskUpdate("hidden", None)>>,
          hide |-> TRUE]

\* ------------------------------------------------------ single-file download
\* _skip_file_download: "no", or why the file is skipped.
_skip_file_download(exists, filename, a) ==
    IF exists THEN "already downloaded"
    ELSE IF a.ignore # <<>>
            /\ \E i \in 1..Len(a.ignore) : contains(filename, a.ignore[i])
    THEN "ignore list"
    ELSE IF a.include # <<>>
            /\ \A i \in 1..Len(a.include) : ~contains(filename, a.include[i])
    THEN "include list"
    ELSE "no"

\* How much later than the last reading the clock is read again.
Elapsed == {0, StatusCacheTtl}

ArgsValues ==
    [maintenance_strategy : {"backoff", "skip"},
     skip_status_check : BOOLEAN,
     ignore : {<<>>, <<"clip">>},
     include : {<<>>, <<"zzz">>}]

\* The session status map download() starts with.
SessionMaps == {EmptyMap, "Cdn" :> Operational, "Cdn" :> NonOperational}

\* _status_cache as earlier calls may have left it.
CacheValues == {<<>>} \cup
    {<<[fetch_time |-> 0, status |-> m]>> : m \in StatusPages \ {EmptyMap}}

\* MediaDownloader.__init__ with retries between 1 and max_retries, on entry
\* to download().
MediaDownloaderInit(max_retries) ==
    /\ pc = "idle"
    /\ header = Absent
    /\ raw_remaining = Absent
    /\ download_url = TRUE
    /\ download_path = <<"clip", "mp4">>
    /\ file_size = None
    /\ estimator = <<>>
    /\ total_downloaded = 0
    /\ nchunks = 0
    /\ head_future = "none"
    /\ head_result = None
    /\ head_calls = 0
    /\ head_reads = 0
    /\ head_executor = "none"
    /\ \E exists \in {None, 4} :
         fs = [p \in AllPaths |-> IF p = download_path THEN exists ELSE None]
    /\ moved = FALSE
    /\ history = <<>>
    /\ log_once = 0
    /\ result = "running"
    /\ raised = "none"
    /\ chunk_size = None
    /\ dpc = "init"
    /\ retries \in 1..max_retries
    /\ budget = retries
    /\ attempt = 0
    /\ args \in ArgsValues
    /\ bunkr_status \in SessionMaps
    /\ status_cache \in CacheValues
    /\ now = 0
    /\ task = [visible |-> TRUE]
    /\ events = <<>>
    /\ failure = <<>>
    /\ ret = "running"
    /\ workers = <<>>
    /\ NoWriters
    /\ NoWeb

DownloadInit == MediaDownloaderInit(MaxRetries)

\* download(), lines 91-112: the offline check, the skip check, and the
\* entry into the attempt loop.
Download ==
    /\ dpc = "init"
    /\ \E page \in StatusPages :
         LET off == subdomain_is_offline(bunkr_status, page)
             pre == IF off.fetched THEN <<Fetch>> ELSE <<>>
             skip == _skip_file_download(fs[download_path] # None, download_path, args)
         IN  IF off.offline /\ retries = 1
             THEN /\ events' = events \o pre \o
                        <<Log("Non-operational subdomain", 0), SessionLog("link"),
                          TaskUpdate("hidden", None)>>
                  /\ task' = [visible |-> FALSE]
                  /\ dpc' = "returned"
                  /\ ret' = "None"
                  /\ UNCHANGED history
             ELSE IF skip # "no"
             THEN /\ events' = events \o pre \o
                        <<Log("Skipped download", 0), TaskUpdate("hidden", 100)>>
                  /\ task' = [visible |-> FALSE]
                  /\ history' = Append(history,
                        [completed |-> 100, mode |-> "skip", moved |-> FALSE])
                  /\ dpc' = "returned"
                  /\ ret' = "None"
             ELSE /\ events' = events \o pre
                  /\ dpc' = "loop"
                  /\ UNCHANGED <<task, history, ret>>
    /\ UNCHANGED <<pc, header, raw_remaining, download_url, download_path, file_size,
                   estimator, total_downloaded, nchunks, head_future, head_result,
                   head_calls, head_reads, head_executor, fs, moved, log_once, result,
                   raised>>
    /\ UNCHANGED <<retries, budget, attempt, args, bunkr_status, status_cache, now,
                   failure>>
    /\ UNCHANGED chunk_size
    /\ UNCHANGED svars
    /\ UNCHANGED cvars
    /\ UNCHANGED webvars

\* attempt_download: requests.get or raise_for_status raises, the handler
\* classifies the failure, and the loop goes on or download() returns.
AttemptFail ==
    /\ dpc = "loop"
    /\ attempt < budget
    /\ \E err \in RequestErrors, dt \in Elapsed :
       \E h \in {_handle_request_exception(err, attempt, retries, args, bunkr_status,
                                            status_cache, now + dt, page) :
                    page \in StatusPages} :
         LET t == now + dt
             again == h.retry /\ attempt + 1 < budget
             f == _handle_failed_download(budget = 1)
         IN  /\ now' = t + h.slept
             /\ bunkr_status' = h.bunkr_status
             /\ status_cache' = h.status_cache
             /\ retries' = h.retries
             /\ failure' = <<[err |-> err, attempt |-> attempt, current |-> h.current,
                              at |-> t]>>
             /\ IF again
                THEN /\ attempt' = attempt + 1
                     /\ events' = events \o <<Get(attempt)>> \o h.events
                     /\ UNCHANGED <<dpc, ret, task>>
                ELSE /\ events' = events \o <<Get(attempt)>> \o h.events \o f.events
                     /\ dpc' = "returned"
                     /\ ret' = f.ret
                     /\ task' = [visible |-> task.visible /\ ~f.hide]
                     /\ UNCHANGED attempt
    /\ UNCHANGED wvars
    /\ UNCHANGED <<budget, args>>
    /\ UNCHANGED svars
    /\ UNCHANGED cvars
    /\ UNCHANGED webvars

\* attempt_download: the request succeeds and save_file_with_progress is
\* called with the response.
AttemptOk ==
    /\ dpc = "loop"
    /\ attempt < budget
    /\ \E h \in DownloadHeaderValues : header' = h
    /\ pc' = "start"
    /\ dpc' = "saving"
    /\ events' = Append(events, Get(attempt))
    /\ UNCHANGED <<raw_remaining, download_url, download_path, file_size,
                   estimator, total_downloaded, nchunks, head_future, head_result,
                   head_calls, head_reads, head_executor, fs, moved, history,
                   log_once, result, raised>>
    /\ UNCHANGED <<retries, budget, attempt, args, bunkr_status, status_cache, now,
                   task, failure, ret>>
    /\ UNCHANGED chunk_size
    /\ UNCHANGED svars
    /\ UNCHANGED cvars
    /\ UNCHANGED webvars

\* save_file_with_progress has returned or raised: attempt_download returns
\* its value and download() ends.
SaveReturn ==
    /\ dpc = "saving"
    /\ pc = "done"
    /\ LET f == _handle_failed_download(budget = 1)
       IN  IF result = "False"
           THEN /\ dpc' = "returned"
                /\ ret' = "None"
                /\ UNCHANGED <<events, task>>
           ELSE IF result = "True"
           THEN /\ dpc' = "returned"
                /\ ret' = f.ret
                /\ events' = events \o f.events
                /\ task' = [visible |-> task.visible /\ ~f.hide]
           ELSE /\ dpc' = "raised"
                /\ ret' = result
                /\ UNCHANGED <<events, task>>
    /\ UNCHANGED wvars
    /\ UNCHANGED <<retries, budget, attempt, args, bunkr_status, status_cache, now,
                   failure>>
    /\ UNCHANGED svars
    /\ UNCHANGED cvars
    /\ UNCHANGED webvars

\* ---------------------------------------------------------- specifications
Init == WriterInit

Next == Resolve \/ ProbeDone \/ Chunk \/ ChunkedError \/ StreamError \/ StreamEnd

Spec == Init /\ [][Next]_vars

DownloadNext ==
    \/ Download \/ AttemptFail \/ AttemptOk \/ SaveReturn
    \/ Resolve \/ ProbeDone \/ Chunk \/ ChunkedError \/ StreamError \/ StreamEnd

SpecDownload == DownloadInit /\ [][DownloadNext]_vars

\* The attempt loop alone, up to the response handed to the writer, with
\* budgets up to MaxAttempts.
AttemptsInit == MediaDownloaderInit(MaxAttempts)

AttemptsNext == Download \/ AttemptFail \/ AttemptOk

SpecAttempts == AttemptsInit /\ [][AttemptsNext]_vars

\* ------------------------------------------- concurrent status refreshes
Workers == 1..NumWorkers

\* Download threads about to call refresh_server_status for the same
\* session, with the cache as earlier calls left it, fresh or expired.
RefreshInit ==
    /\ pc = "idle"
    /\ header = Absent
    /\ raw_remaining = Absent
    /\ download_url = TRUE
    /\ download_path = <<"clip", "mp4">>
    /\ file_size = None
    /\ estimator = <<>>
    /\ total_downloaded = 0
    /\ nchunks = 0
    /\ head_future = "none"
    /\ head_result = None
    /\ head_calls = 0
    /\ head_reads = 0
    /\ head_executor = "none"
    /\ fs = [p \in AllPaths |-> None]
    /\ moved = FALSE
    /\ history = <<>>
    /\ log_once = 0
    /\ result = "running"
    /\ raised = "none"
    /\ chunk_size = None
    /\ dpc = "off"
    /\ retries = 1
    /\ budget = 1
    /\ attempt = 0
    /\ args = [maintenance_strategy |-> "backoff", skip_status_check |-> FALSE,
               ignore |-> <<>>, include |-> <<>>]
    /\ bunkr_status \in SessionMaps
    /\ status_cache \in CacheValues
    /\ now \in {0, StatusCacheTtl}
    /\ task = [visible |-> TRUE]
    /\ events = <<>>
    /\ failure = <<>>
    /\ ret = "running"
    /\ workers = [w \in Workers |->
                    [pc |-> "idle", now |-> 0, fresh |-> EmptyMap, current |-> <<>>,
                     was_updated |-> FALSE]]
    /\ NoWriters
    /\ NoWeb

\* Line 110: now = datetime.now().
RefreshEnter(w) ==
    /\ workers[w].pc = "idle"
    /\ workers' = [workers EXCEPT ![w].pc = "check", ![w].now = now]
    /\ UNCHANGED <<wvars, dvars>>
    /\ UNCHANGED cvars
    /\ UNCHANGED webvars

\* Lines 113-119: a cache entry younger than the TTL answers the call.
RefreshCheck(w) ==
    /\ workers[w].pc = "check"
    /\ IF status_cache # <<>> /\ workers[w].now - status_cache[1].fetch_time < StatusCacheTtl
       THEN /\ workers' = [workers EXCEPT
                   ![w].pc = "done",
                   ![w].current = <<get(status_cache[1].status, get_subdomain, Unknown)>>]
            /\ bunkr_status' =
                   IF get_subdomain \in DOMAIN status_cache[1].status
                   THEN put(bunkr_status, get_subdomain, status_cache[1].status[get_subdomain])
                   ELSE bunkr_status
       ELSE /\ workers' = [workers EXCEPT ![w].pc = "fetch"]
            /\ UNCHANGED bunkr_status
    /\ UNCHANGED wvars
    /\ UNCHANGED <<dpc, retries, budget, attempt, args, status_cache, now, task, events,
                   failure, ret>>
    /\ UNCHANGED cvars
    /\ UNCHANGED webvars

\* Line 122: fresh_status = get_bunkr_status().
RefreshFetch(w) ==
    /\ workers[w].pc = "fetch"
    /\ \E page \in StatusPages :
         workers' = [workers EXCEPT ![w].pc = "store", ![w].fresh = page]
    /\ events' = Append(events, Fetch)
    /\ UNCHANGED wvars
    /\ UNCHANGED <<dpc, retries, budget, attempt, args, bunkr_status, status_cache, now,
                   task, failure, ret>>
    /\ UNCHANGED cvars
    /\ UNCHANGED webvars

\* Lines 123-131: a non-empty result is stored with the time read on entry.
RefreshStore(w) ==
    /\ workers[w].pc = "store"
    /\ IF workers[w].fresh # EmptyMap
       THEN /\ status_cache' = <<[fetch_time |-> workers[w].now, status |-> workers[w].fresh]>>
            /\ bunkr_status' = workers[w].fresh @@ bunkr_status
            /\ workers' = [workers EXCEPT
                   ![w].pc = "done",
                   ![w].current = <<get(workers[w].fresh, get_subdomain, Unknown)>>,
                   ![w].was_updated = TRUE]
       ELSE /\ workers' = [workers EXCEPT
                   ![w].pc = "done",
                   ![w].current = <<get(bunkr_status, get_subdomain, Unknown)>>]
            /\ UNCHANGED <<status_cache, bunkr_status>>
    /\ UNCHANGED wvars
    /\ UNCHANGED <<dpc, retries, budget, attempt, args, now, task, events, failure, ret>>
    /\ UNCHANGED cvars
    /\ UNCHANGED webvars

\* The wall clock advances.
Tick ==
    /\ workers # <<>>
    /\ now % StatusCacheTtl < MaxTicks
    /\ now' = now + 1
    /\ UNCHANGED wvars
    /\ UNCHANGED <<dpc, retries, budget, attempt, args, bunkr_status, status_cache, task,
                   events, failure, ret>>
    /\ UNCHANGED svars
    /\ UNCHANGED cvars
    /\ UNCHANGED webvars

RefreshNext ==
    \/ \E w \in Workers : RefreshEnter(w)
    \/ \E w \in Workers : RefreshCheck(w)
    \/ \E w \in Workers : RefreshFetch(w)
    \/ \E w \in Workers : RefreshStore(w)
    \/ Tick

SpecRefresh == RefreshInit /\ [][RefreshNext]_vars

\* ------------------------------------------------------------------ claims
Last(seq) == seq[Len(seq)]
Positive(value) == value.k = "int" /\ value.v > 0
NonDecreasing(h) == \A i \in 1..(Len(h) - 1) : h[i].completed <= h[i + 1].completed
Reported100(h) == \E i \in 1..Len(h) : h[i].completed = 100

\* C1: save_file_with_progress returns needs_retry = false, with the file at
\* the final path, only if the length was known and the bytes written equal
\* it, or the length was unknown and the rename succeeded after a stream
\* that ended without a chunked-transfer error; in every other case the
\* attempt is not reported complete and the final path is not created by it.
C1_CompleteOnlyWhenWhole ==
    pc = "done" =>
        /\ result = "False" =>
             /\ fs[download_path] # None
             /\ \/ file_size # None /\ total_downloaded = file_size
                \/ file_size = None /\ moved
        /\ result # "False" =>
             /\ fs[download_path] = None
             /\ \A i \in 1..Len(history) : history[i].mode # "final"

\* C2: the streamed bytes go only to <final-path>.temp, a path distinct from
\* the final path, and the final path comes into existence only through the
\* rename at finalize.
C2_TempPathDistinct ==
    pc \in {"stream", "done"} =>
        /\ temp_download_path = appended_temp(download_path)
        /\ temp_download_path # download_path
        /\ fs[download_path] # None => moved

\* C3: with a length L known from the response, the percentages reported are
\* non-decreasing and never exceed 100, and once the stream has delivered
\* exactly L bytes the last one reported is 100.
C3_KnownLengthPercentages ==
    (pc \in {"stream", "done"} /\ (Positive(header) \/ Positive(raw_remaining))) =>
        /\ NonDecreasing(history)
        /\ \A i \in 1..Len(history) : history[i].completed <= 100
        /\ total_downloaded = file_size =>
             history # <<>> /\ Last(history).completed = 100

C3_Witness ==
    /\ pc = "done"
    /\ result = "False"
    /\ header = Num(4)
    /\ Len(history) >= 3
    /\ history[1].completed = 50

\* C4: while the length stays unknown, every per-chunk value comes from the
\* estimator, is at most 99 and never decreases, a byte count of zero or
\* below leaves the estimate as it is, and 100 is reported exactly when the
\* rename at finalize succeeded.
C4_UnknownLengthEstimates ==
    (pc \in {"stream", "done"} /\ file_size = None) =>
        /\ \A i \in 1..Len(history) :
             \/ history[i].mode = "estimate" /\ history[i].completed <= 99
             \/ history[i].mode = "final" /\ history[i].completed = 100
        /\ NonDecreasing(history)
        /\ Reported100(history) <=> moved
        /\ estimator # <<>> =>
             /\ estimator_update(estimator[1], 0) = estimator[1]
             /\ estimator_update(estimator[1], -1) = estimator[1]

C4_Witness ==
    /\ pc = "done"
    /\ file_size = None
    /\ moved
    /\ Len(history) >= 3
    /\ history[1].completed > 0
    /\ history[Len(history) - 1].completed = 99

\* C5 as claimed: 100 is reported only after the temp file was renamed to the
\* final path, no per-chunk update reports 100 before that, and no attempt
\* that returns needs_retry = true has reported 100.
C5_HundredOnlyAfterRename ==
    /\ \A i \in 1..Len(history) : history[i].completed = 100 => history[i].moved
    /\ (pc = "done" /\ result = "True") => ~Reported100(history)

\* C5 as amended: 100 is reported either by finalize after the rename, or by
\* a per-chunk update in exact mode once the bytes written have reached the
\* known length; no estimated update reports 100, and an attempt that
\* returns needs_retry = true has reported 100 only if the length was known
\* and the bytes written reached it.
C5_HundredAfterRenameOrAllBytes ==
    /\ \A i \in 1..Len(history) :
         /\ history[i].mode = "estimate" => history[i].completed < 100
         /\ history[i].completed = 100 =>
              \/ history[i].moved
              \/ /\ history[i].mode = "exact"
                 /\ file_size # None
                 /\ total_downloaded >= file_size
    /\ (pc = "done" /\ result = "True" /\ Reported100(history)) =>
         file_size # None /\ total_downloaded >= file_size

C5_Witness ==
    /\ pc = "done"
    /\ result = "False"
    /\ Len(history) >= 2
    /\ history[Len(history) - 1].completed = 100
    /\ ~history[Len(history) - 1].moved
    /\ Last(history).mode = "final"

\* C6: once the probe has resolved to a positive length and been read, the
\* length stays that value, every later update is the exact percentage of
\* it, the estimator is gone and is not created again, and finalize applies
\* the known-length rule; a probe that resolved to nothing is dropped and
\* estimation goes on.
C6_ProbeUpgrade ==
    [][/\ (head_future = "done" /\ head_future' = "consumed" /\ head_result # None) =>
            /\ file_size' = head_result
            /\ estimator' = <<>>
            /\ Last(history').mode = "exact"
            /\ Last(history').completed =
                 Min(100, (total_downloaded' * 100) \div head_result)
       /\ (head_future = "done" /\ head_future' = "consumed" /\ head_result = None) =>
            /\ file_size' = None
            /\ estimator' # <<>>
            /\ Last(history').mode = "estimate"
       /\ (head_future = "consumed" /\ head_result # None) =>
            /\ file_size = head_result
            /\ file_size' = file_size
            /\ estimator' = <<>>
            /\ \A i \in (Len(history) + 1)..Len(history') :
                 \/ history'[i].mode = "final"
                 \/ /\ history'[i].mode = "exact"
                    /\ history'[i].completed =
                         Min(100, (total_downloaded' * 100) \div file_size)
            /\ (pc = "stream" /\ pc' = "done" /\ total_downloaded # file_size) =>
                 result' \in {"True", "RequestException"} /\ ~moved'
       /\ (head_future = "consumed" /\ head_result = None) =>
            /\ file_size' = None
            /\ \A i \in (Len(history) + 1)..Len(history') :
                 history'[i].mode \in {"estimate", "final"}
      ]_vars

C6_Witness ==
    /\ pc = "done"
    /\ result = "False"
    /\ head_future = "consumed"
    /\ file_size = 4
    /\ \E i \in 1..(Len(history) - 2) :
         /\ history[i].mode = "estimate"
         /\ history[i + 1].mode = "exact"
         /\ history[i + 2].mode = "exact"

\* C7: the probe is submitted once when the response gives no positive
\* length and a URL is supplied, and never otherwise; its result is read at
\* most once, and not again after it was read.
C7_ProbeOnce ==
    /\ pc = "start" => head_calls = 0
    /\ pc \in {"stream", "done"} =>
         head_calls = IF ~Positive(header) /\ ~Positive(raw_remaining) /\ download_url
                      THEN 1 ELSE 0
    /\ head_reads <= 1
    /\ head_reads = 1 <=> head_future = "consumed"

C7_Witness ==
    /\ pc = "done"
    /\ head_calls = 1
    /\ head_reads = 1
    /\ nchunks = MaxChunks

\* C8: the length resolved from the response is the first positive integer
\* among the Content-Length header and the transport hint, in that order; a
\* zero, negative or non-numeric value counts as missing, never as a length
\* of zero; with no usable value and no URL the result is "unknown", with no
\* probe and nothing raised.
C8_SynchronousLength ==
    (pc = "stream" /\ nchunks = 0) =>
        /\ file_size = IF Positive(header) THEN header.v
                       ELSE IF Positive(raw_remaining) THEN raw_remaining.v
                       ELSE None
        /\ file_size # 0
        /\ (~Positive(header) /\ ~Positive(raw_remaining) /\ ~download_url) =>
             /\ file_size = None
             /\ head_calls = 0
             /\ head_future = "none"
             /\ result = "running"

C8_Witness ==
    /\ pc = "stream"
    /\ nchunks = 0
    /\ header = Num(0)
    /\ raw_remaining = Num(6)
    /\ file_size = 6

IsNetworkCall(ev) == ev.e \in {"get", "fetch"}
Skipped == dpc = "returned" /\ \E i \in 1..Len(events) : events[i].name = "Skipped download"

\* C9: when download() skips a file it makes no network call before it
\* returns (no GET for the file, no fetch of the status page), leaves the
\* task at 100 and hidden, and returns no Deferred record, whatever the
\* session status map holds, the empty map included.
C9_SkipWithoutNetwork ==
    Skipped =>
        /\ \A i \in 1..Len(events) : ~IsNetworkCall(events[i])
        /\ ~task.visible
        /\ history # <<>> /\ Last(history).completed = 100
        /\ ret = "None"

\* The request of the last classified failure, as a position of the trace.
LastGet == CHOOSE i \in 1..Len(events) :
               /\ events[i].e = "get"
               /\ \A j \in (i + 1)..Len(events) : events[j].e # "get"

MaintenanceSkipCase ==
    /\ failure # <<>>
    /\ ~failure[1].err.response \/ failure[1].err.status_code = SERVER_DOWN
    /\ failure[1].current # <<>>
    /\ \E i \in 1..Len(failure[1].current[1]) :
         lower_word(failure[1].current[1][i]) = "maintenance"
    /\ args.maintenance_strategy = "skip"

\* C10: after a connection-level or SERVER_DOWN failure whose status lookup
\* mentions maintenance (in any case), under the skip strategy, a
\* maintenance event is written to the session log, nothing sleeps, and this
\* orchestrator sends no further request for the file, at any attempt index
\* and budget.
C10_MaintenanceSkip ==
    MaintenanceSkipCase =>
        /\ \E i \in (LastGet + 1)..Len(events) : events[i] = SessionLog("maintenance")
        /\ \A i \in (LastGet + 1)..Len(events) : events[i].e # "sleep"
        /\ events[LastGet] = Get(failure[1].attempt)
        /\ dpc = "returned"

C10_Witness ==
    /\ MaintenanceSkipCase
    /\ failure[1].attempt >= 1
    /\ budget > failure[1].attempt + 1
    /\ failure[1].current[1] = ScheduledMaintenance
    /\ dpc = "returned"

\* ------------------------------------------------- claims on the attempt loop
Logged(name) == \E i \in 1..Len(events) : events[i].e = "log" /\ events[i].name = name
GetPositions == {i \in 1..Len(events) : events[i].e = "get"}
SleepPositions == {i \in 1..Len(events) : events[i].e = "sleep"}

\* C11: when the file is aborted for maintenance under the skip strategy,
\* download() returns neither a Deferred record nor the "Download failed"
\* terminal failure, whatever the retries budget.
C11_MaintenanceSkipOutcome ==
    (MaintenanceSkipCase /\ dpc = "returned") =>
        /\ ret # "Deferred"
        /\ ~Logged("Download failed")
        /\ ~Logged("Exceeded retry attempts")

\* Every failure classified so far was TOO_MANY_REQUESTS or SERVICE_UNAVAILABLE.
OnlyRateLimited ==
    /\ failure # <<>>
    /\ \A i \in 1..Len(events) :
         events[i].e = "log" =>
            events[i].name \in {"Retrying download", "Exceeded retry attempts",
                                "Download failed"}

\* 3^i seconds for the i-th backoff.
StandardDelays == <<3, 9, 27, 81, 243>>

\* C12: each TOO_MANY_REQUESTS or SERVICE_UNAVAILABLE response before the
\* last allowed attempt is followed by one sleep, the i-th of 3^i seconds
\* plus a jitter of 1 to 3 seconds, so that successive delays strictly
\* increase, and then by the next request; on the last allowed attempt it
\* is followed by no sleep and no request; after k such responses and a
\* successful one there were exactly k sleeps, the response of attempt k+1
\* is streamed, and when the writer completes the file is at the final path.
C12_RateLimitBackoff ==
    /\ \A p \in 1..Len(events) :
         (events[p].e = "log" /\ events[p].name = "Retrying download") =>
            LET i == events[p].n
            IN  /\ p > 1 /\ events[p - 1] = Get(i - 1)
                /\ IF i < budget
                   THEN /\ p + 1 <= Len(events)
                        /\ events[p + 1] = Sleep("standard", StandardDelays[i])
                        /\ p + 2 <= Len(events) => events[p + 2] = Get(i)
                   ELSE \A q \in (p + 1)..Len(events) :
                            events[q].e \notin {"sleep", "get"}
    /\ \A p, q \in SleepPositions :
         (p < q /\ events[p].name = "standard" /\ events[q].name = "standard") =>
            events[p].n + jitter_hi("standard") < events[q].n + jitter_lo("standard")
    /\ (OnlyRateLimited /\ pc # "idle") =>
         /\ Cardinality(SleepPositions) = attempt
         /\ Cardinality(GetPositions) = attempt + 1
         /\ attempt < budget
         /\ failure[1].attempt = attempt - 1
    /\ (OnlyRateLimited /\ dpc = "returned" /\ result = "False") =>
         /\ fs[download_path] # None
         /\ ret = "None"

C12_Witness ==
    /\ OnlyRateLimited
    /\ dpc = "returned"
    /\ result = "False"
    /\ budget = 3
    /\ Cardinality(SleepPositions) = 2
    /\ events[Len(events)] = Get(2)

\* The last classified failure is a BAD_GATEWAY that the status lookup, if
\* one was made, did not attribute to maintenance.
BadGatewayCase ==
    /\ failure # <<>>
    /\ failure[1].err = HttpError(BAD_GATEWAY)
    /\ failure[1].current # <<>> =>
         \A i \in 1..Len(failure[1].current[1]) :
            lower_word(failure[1].current[1][i]) # "maintenance"

\* C13: after a BAD_GATEWAY response not attributed to maintenance on
\* attempt i of a budget N > 1, self.retries is 1, a "Server error" event is
\* logged, and at most one further request is sent for the file: the
\* requests of attempts i+2..N never happen and nothing sleeps.
C13_BadGatewayBudget ==
    (BadGatewayCase /\ budget > 1) =>
        /\ retries = 1
        /\ Logged("Server error")
        /\ Cardinality(GetPositions) <= failure[1].attempt + 2
        /\ \A p \in GetPositions : events[p].n <= failure[1].attempt + 1
        /\ \A p \in (LastGet + 1)..Len(events) : events[p].e # "sleep"

C13_Witness ==
    /\ BadGatewayCase
    /\ budget = 3
    /\ failure[1].attempt = 0
    /\ failure[1].current = <<Operational>>
    /\ dpc = "returned"
    /\ retries = 1

\* C14: once a BAD_GATEWAY not attributed to maintenance has set
\* self.retries to 1, download() reports the terminal failure: "Download
\* failed" is logged, the task row is hidden and no Deferred record is
\* returned, whatever budget the MediaDownloader was created with.
C14_BadGatewayAbandons ==
    (BadGatewayCase /\ dpc = "returned") =>
        /\ ret = "None"
        /\ ~task.visible
        /\ Logged("Download failed")

\* attempt_download returned True: the loop ended without a response, or
\* save_file_with_progress returned needs_retry = True.
LoopFailed ==
    /\ dpc = "returned"
    /\ \/ result = "True"
       \/ pc = "idle" /\ failure # <<>>

C16_NeverRaises ==
    /\ dpc # "raised"
    /\ ret \in {"running", "None", "Deferred"}

\* C17: a needs_retry = True result of save_file_with_progress is retried
\* inside attempt_download while attempts remain: download() returns after
\* such a result only when the attempt that produced it was the last one of
\* the budget.
C17_PartialFailureRetried ==
    (dpc = "returned" /\ result = "True") => attempt + 1 = budget

\* ------------------------------------------------ claims on the writer's exits
HasFinalReport == \E i \in 1..Len(history) : history[i].mode = "final"

\* C18: when the stream raises ChunkedEncodingError, at any chunk,
\* save_file_with_progress returns needs_retry = True without finalizing (no
\* rename, no 100 reported by finalize), the temp file holds the bytes
\* written so far, and the final path is untouched.
C18_ChunkedErrorLeavesTemp ==
    (pc = "done" /\ raised = "ChunkedEncodingError") =>
        /\ result = "True"
        /\ ~moved
        /\ ~HasFinalReport
        /\ fs[temp_download_path] = total_downloaded
        /\ fs[download_path] = None

\* The stream ended and the rename was tried and failed.
RenameFailed ==
    /\ pc = "done"
    /\ raised \notin {"ChunkedEncodingError", "RequestException"}
    /\ ~moved
    /\ file_size = None \/ total_downloaded = file_size

\* C19: a rename failure at finalize is returned as needs_retry = True, never
\* raised and never reported as 100, with an unknown length and with a known
\* length that the byte count matches.
C19_RenameFailureRetryable ==
    RenameFailed =>
        /\ result = "True"
        /\ raised = "none"
        /\ ~HasFinalReport

\* ------------------------------------------------ claims on attempt ordering
\* The requests sent so far, in order.
Requests == SelectSeq(events, LAMBDA ev : ev.e = "get")

\* The loop is over: a response is being streamed, or download() is done.
LoopOver == dpc \in {"saving", "returned", "raised"}

\* C20: one download() call with budget N sends at most N requests, for
\* attempts 1, 2, ... in order; between two requests the failure of the
\* first was classified (a log event) and a backoff sleep is the last thing
\* before the second; no request is sent after a successful response or
\* after the classifier decided not to retry.
C20_SequentialBounded ==
    /\ [](/\ Len(Requests) <= budget
          /\ \A k \in 1..Len(Requests) : Requests[k] = Get(k - 1)
          /\ \A p, q \in GetPositions :
               (p < q /\ \A r \in (p + 1)..(q - 1) : r \notin GetPositions) =>
                  /\ \E r \in (p + 1)..(q - 1) : events[r].e = "log"
                  /\ events[q - 1].e = "sleep"
                  /\ \A r \in (p + 1)..(q - 2) : events[r].e # "sleep"
          /\ (LoopOver /\ Requests # <<>>) => Len(Requests) = attempt + 1
          /\ (dpc = "loop") => Len(Requests) = attempt)
    /\ [][LoopOver => (Requests' = Requests /\ attempt' = attempt /\ LoopOver')]_vars

C20_Witness ==
    /\ budget = 3
    /\ Len(Requests) = 3
    /\ dpc = "returned"
    /\ pc = "idle"
    /\ Cardinality(SleepPositions) = 2

\* ------------------------------------------- claims on the failure classifier
\* The position of the request that follows position p, or one past the end.
NextGetAfter(p) ==
    IF \E q \in GetPositions : q > p
    THEN CHOOSE q \in GetPositions : q > p /\ \A r \in GetPositions : r > p => q <= r
    ELSE Len(events) + 1

\* What followed the request at position p, up to the next request.
Segment(p) == (p + 1)..(NextGetAfter(p) - 1)

\* The requests that failed: another request followed, or no response was
\* handed to the writer.
FailedGets == {p \in GetPositions : NextGetAfter(p) <= Len(events) \/ pc = "idle"}

\* The log events of _handle_request_exception for the request at p.
HandlerLogs(p) ==
    {i \in Segment(p) :
        /\ events[i].e = "log"
        /\ events[i].name \notin {"Exceeded retry attempts", "Download failed"}}

SleepsIn(p) == {i \in Segment(p) : events[i].e = "sleep"}

\* C21 as claimed: every classified request failure produces exactly one log
\* event, emitted before any retry sleep for that failure.
C21_OneLogBeforeSleep ==
    \A p \in FailedGets :
        /\ Cardinality(HandlerLogs(p)) = 1
        /\ \A i \in SleepsIn(p) : \A j \in HandlerLogs(p) : j < i

\* C21 as amended: every classified request failure produces at least one
\* log event and at most two (two exactly when the status lookup found
\* maintenance or "Operational": the classification event and then the
\* retry or skip event), and all of them are emitted before the one retry
\* sleep for that failure, if there is one.
C21_LogsBeforeSleep ==
    \A p \in FailedGets :
        /\ Cardinality(HandlerLogs(p)) \in {1, 2}
        /\ Cardinality(HandlerLogs(p)) = 2 <=>
             \E j \in HandlerLogs(p) :
                events[j].name \in {"Maintenance detected", "Maintenance detected (502)",
                                    "Transient error"}
        /\ Cardinality(SleepsIn(p)) <= 1
        /\ \A i \in SleepsIn(p) : \A j \in HandlerLogs(p) : j < i

C21_Witness ==
    /\ Cardinality(FailedGets) = 3
    /\ \E p \in FailedGets : Cardinality(HandlerLogs(p)) = 2 /\ SleepsIn(p) # {}
    /\ \E p \in FailedGets : Cardinality(HandlerLogs(p)) = 1 /\ SleepsIn(p) # {}
    /\ \E p \in FailedGets : Cardinality(HandlerLogs(p)) = 1 /\ SleepsIn(p) = {}

\* The file was abandoned because its subdomain is offline: download()
\* found it marked offline on the final pass, or the final pass's own attempt
\* marked it offline.
AbandonedOffline ==
    /\ dpc = "returned"
    /\ budget = 1
    /\ Logged("Non-operational subdomain") \/ Logged("No response")

\* C22: whenever a file is abandoned because its subdomain is offline or
\* unreachable, the task row is hidden and the file's link is written to the
\* session log, both when the subdomain was marked offline before the pass
\* and when the final pass's own attempt finds it offline.
C22_OfflineAbandonLogged ==
    AbandonedOffline =>
        /\ ~task.visible
        /\ \E i \in 1..Len(events) : events[i] = SessionLog("link")

\* ------------------------------------------------ claims on the status cache
InRefresh(w) == workers[w].pc \in {"check", "fetch", "store"}

\* C23: concurrent calls of refresh_server_status keep a single-writer
\* discipline: the check / fetch / store sequence of one worker is not
\* interleaved with another's, the stored fetch time never decreases, and
\* an expired cache is refreshed by one successful fetch, not one per
\* worker.
C23_SingleWriter ==
    /\ [](/\ Cardinality({w \in Workers : InRefresh(w)}) <= 1
          /\ Cardinality({w \in Workers : workers[w].fresh # EmptyMap}) <= 1)
    /\ [][(status_cache # <<>> /\ status_cache' # <<>>) =>
             status_cache'[1].fetch_time >= status_cache[1].fetch_time]_vars

\* ------------------------------------------------ claims on the length probe
\* C24: the writer never waits for the probe: while it streams, the next
\* chunk and the end of the stream can be handled whatever the probe's
\* state, the probe's result is read only in a chunk iteration, and on every
\* exit path (success, chunked error, other exception) the probe's executor
\* has been shut down, without waiting for a probe that is still pending.
C24_WriterNeverWaits ==
    /\ pc = "stream" =>
         /\ ENABLED StreamEnd
         /\ ENABLED ChunkedError
         /\ nchunks < MaxChunks => ENABLED Chunk
    /\ head_reads <= nchunks
    /\ pc = "done" =>
         head_executor = IF head_calls > 0 THEN "shutdown" ELSE "none"

C24_Witness ==
    /\ pc = "done"
    /\ result = "False"
    /\ moved
    /\ nchunks = MaxChunks
    /\ head_future = "pending"
    /\ head_executor = "shutdown"

\* ------------------------------------------- claims on the classifier's branches
ServerDown(err) == ~err.response \/ err.status_code = SERVER_DOWN

SaysMaintenance(status) ==
    \E i \in 1..Len(status) : lower_word(status[i]) = "maintenance"

\* The request of the last classified failure, as a position of the trace.
FailedGet == CHOOSE p \in GetPositions : events[p] = Get(failure[1].attempt)

\* The session map's entry for the subdomain, "Unknown" when there is none.
SubdomainStatus ==
    IF get_subdomain \in DOMAIN bunkr_status THEN bunkr_status[get_subdomain] ELSE Unknown

\* The last failure was connection-level or SERVER_DOWN, and the status is
\* neither maintenance nor exactly "Operational", or was not looked up.
OfflineCase ==
    /\ failure # <<>>
    /\ ServerDown(failure[1].err)
    /\ \/ failure[1].current = <<>>
       \/ /\ ~SaysMaintenance(failure[1].current[1])
          /\ failure[1].current[1] # Operational

\* C25: in that case the subdomain's entry in the session status map is
\* "Non-operational", "No response" is logged, nothing sleeps and no further
\* request is sent, whatever the attempt index and the budget left.
C25_OfflineMarked ==
    OfflineCase =>
        /\ SubdomainStatus = NonOperational
        /\ events[FailedGet + 1 + (IF \E i \in Segment(FailedGet) : events[i] = Fetch
                                   THEN 1 ELSE 0)]
             = Log("No response", failure[1].attempt + 1)
        /\ SleepsIn(FailedGet) = {}
        /\ NextGetAfter(FailedGet) = Len(events) + 1
        /\ dpc = "returned"
        /\ retries = budget

C25_Witness ==
    /\ OfflineCase
    /\ failure[1].attempt = 2
    /\ budget = 4
    /\ failure[1].current = <<Unknown>>
    /\ args.skip_status_check = FALSE

\* The last failure was connection-level or SERVER_DOWN and the status
\* lookup returned "Operational".
TransientCase ==
    /\ failure # <<>>
    /\ ServerDown(failure[1].err)
    /\ failure[1].current = <<Operational>>

\* C26: in that case the subdomain is not marked offline, and with attempts
\* left there is one sleep of 3^(attempt+1) seconds plus a jitter of 1 to 3
\* seconds and the next attempt follows; on the last allowed attempt there
\* is no sleep and no further request.
C26_TransientRetry ==
    TransientCase =>
        LET a == failure[1].attempt
        IN  /\ SubdomainStatus # NonOperational
            /\ \E i \in Segment(FailedGet) : events[i] = Log("Transient error", a + 1)
            /\ IF a + 1 < budget
               THEN /\ \E i \in Segment(FailedGet) :
                          /\ SleepsIn(FailedGet) = {i}
                          /\ events[i] = Sleep("standard", StandardDelays[a + 1])
                    /\ jitter_lo("standard") = 1 /\ jitter_hi("standard") = 3
                    /\ attempt = a + 1
                    /\ dpc \in {"loop", "saving"}
               ELSE /\ SleepsIn(FailedGet) = {}
                    /\ NextGetAfter(FailedGet) = Len(events) + 1
                    /\ dpc = "returned"

C26_Witness ==
    /\ TransientCase
    /\ failure[1].attempt = 2
    /\ budget = 4
    /\ dpc = "saving"
    /\ events[Len(events)] = Get(3)

\* Ten minutes for the third attempt and every later one.
MaintenanceDelays == <<120, 300, 600, 600, 600>>

\* The last failure was classified as maintenance and the backoff strategy
\* applies.
MaintenanceBackoffCase ==
    /\ failure # <<>>
    /\ ServerDown(failure[1].err)
    /\ failure[1].current # <<>>
    /\ SaysMaintenance(failure[1].current[1])
    /\ args.maintenance_strategy = "backoff"

\* C27: in that case, on attempt index a with attempts left, there is one
\* sleep of 2, 5 or 10 minutes (a = 0, a = 1, a >= 2) plus a jitter of 1 to
\* 10 seconds and the next attempt follows; the subdomain is not marked
\* offline; on the last allowed attempt there is no sleep and no further
\* request.
C27_MaintenanceBackoff ==
    MaintenanceBackoffCase =>
        LET a == failure[1].attempt
        IN  /\ SubdomainStatus # NonOperational
            /\ IF a + 1 < budget
               THEN /\ \E i \in Segment(FailedGet) :
                          /\ SleepsIn(FailedGet) = {i}
                          /\ events[i] = Sleep("maintenance", MaintenanceDelays[a + 1])
                    /\ jitter_lo("maintenance") = 1 /\ jitter_hi("maintenance") = 10
                    /\ attempt = a + 1
                    /\ dpc \in {"loop", "saving"}
               ELSE /\ SleepsIn(FailedGet) = {}
                    /\ NextGetAfter(FailedGet) = Len(events) + 1
                    /\ dpc = "returned"

C27_Witness ==
    /\ MaintenanceBackoffCase
    /\ failure[1].attempt = 2
    /\ budget = 4
    /\ \E i \in Segment(FailedGet) : events[i] = Sleep("maintenance", 600)
    /\ \E i \in 1..Len(events) : events[i] = Sleep("maintenance", 120)
    /\ \E i \in 1..Len(events) : events[i] = Sleep("maintenance", 300)

\* The last failure was a BAD_GATEWAY whose status lookup reports
\* maintenance.
BadGatewayMaintenanceCase ==
    /\ failure # <<>>
    /\ failure[1].err = HttpError(BAD_GATEWAY)
    /\ failure[1].current # <<>>
    /\ SaysMaintenance(failure[1].current[1])

\* C28: in that case a maintenance event is written to the session log, the
\* retries budget is not forced to 1, and the configured strategy decides:
\* with skip the file is aborted at once with no sleep, with backoff the
\* long maintenance delay applies while attempts are left.
C28_BadGatewayMaintenance ==
    BadGatewayMaintenanceCase =>
        LET a == failure[1].attempt
        IN  /\ \E i \in Segment(FailedGet) : events[i] = SessionLog("maintenance")
            /\ retries = budget
            /\ IF args.maintenance_strategy = "backoff" /\ a + 1 < budget
               THEN /\ \E i \in Segment(FailedGet) :
                          /\ SleepsIn(FailedGet) = {i}
                          /\ events[i] = Sleep("maintenance", MaintenanceDelays[a + 1])
                    /\ attempt = a + 1
               ELSE /\ SleepsIn(FailedGet) = {}
                    /\ NextGetAfter(FailedGet) = Len(events) + 1
                    /\ dpc = "returned"

\* An HTTP status the handler has no branch for.
Unclassified(err) ==
    /\ err.response
    /\ err.status_code \notin {SERVER_DOWN, TOO_MANY_REQUESTS, SERVICE_UNAVAILABLE,
                               BAD_GATEWAY}

\* C29: a request failure with any other HTTP status aborts the file at
\* once: the request is followed by one "Request error" event, no sleep, no
\* status lookup and no further request, and the status map, the status
\* cache and the retries budget are left as they were.
C29_UnclassifiedAborts ==
    [][(dpc = "loop" /\ dpc' # "saving" /\ failure' # <<>> /\ events' # events
          /\ Unclassified(failure'[1].err)) =>
         LET new == SubSeq(events', Len(events) + 1, Len(events'))
         IN  /\ new[1] = Get(attempt)
             /\ new[2] = Log("Request error", attempt + 1)
             /\ \A i \in 3..Len(new) : new[i].e \notin {"sleep", "fetch", "get", "session"}
             /\ failure'[1].current = <<>>
             /\ bunkr_status' = bunkr_status
             /\ status_cache' = status_cache
             /\ retries' = retries
             /\ attempt' = attempt
             /\ dpc' = "returned"
      ]_vars

C29_Witness ==
    /\ failure # <<>>
    /\ Unclassified(failure[1].err)
    /\ failure[1].attempt = 2
    /\ budget = 4
    /\ dpc = "returned"
    /\ Cardinality(SleepPositions) = 2

\* Every fetch of the status page so far was made by the failure handler:
\* it follows a failed request and precedes the next one.
FetchOnlyInHandler ==
    \A i \in 1..Len(events) :
        events[i] = Fetch => \E p \in FailedGets : i \in Segment(p)

\* A step in which the failure handler looked the status up, at time
\* failure'[1].at: what refresh_server_status did with the cache.
RefreshRespectsTtl ==
    (dpc = "loop" /\ dpc' # "saving" /\ failure' # <<>> /\ events' # events
       /\ failure'[1].current # <<>>) =>
      LET t == failure'[1].at
          new == SubSeq(events', Len(events) + 1, Len(events'))
          fetches == Cardinality({i \in 1..Len(new) : new[i] = Fetch})
          fresh == status_cache # <<>> /\ t - status_cache[1].fetch_time < StatusCacheTtl
          current == failure'[1].current[1]
      IN  IF fresh
          THEN /\ fetches = 0
               /\ status_cache' = status_cache
               /\ current = get(status_cache[1].status, get_subdomain, Unknown)
          ELSE /\ fetches = 1
               /\ \/ /\ status_cache' # status_cache
                     /\ status_cache'[1].fetch_time = t
                     /\ status_cache'[1].status # EmptyMap
                     /\ current = get(status_cache'[1].status, get_subdomain, Unknown)
                     /\ \A k \in DOMAIN status_cache'[1].status :
                          k # get_subdomain => bunkr_status'[k] = status_cache'[1].status[k]
                  \/ /\ status_cache' = status_cache
                     /\ current = get(bunkr_status, get_subdomain, Unknown)

\* C30: refresh_server_status respects the TTL: a cached fetch younger than
\* the TTL answers without fetching; otherwise the page is fetched exactly
\* once, a non-empty result replaces the cache entry with the current time
\* and is merged into the session map, and an empty result leaves the cache
\* as it was and answers from the session map; and the status page is
\* fetched only from a failure handler, never before or during a successful
\* attempt.
C30_LazyRefresh ==
    /\ []FetchOnlyInHandler
    /\ [][RefreshRespectsTtl]_vars

\* ------------------------------------------------ chunk sizes of real files
\* File sizes around every threshold of THRESHOLDS, a small file and a file
\* beyond the last threshold.
SizeSamples ==
    {THRESHOLDS[i][1] + d : i \in 1..Len(THRESHOLDS), d \in (0 - MaxDelta)..MaxDelta}
      \cup {1, GB + 512 * MB}

\* One call of save_file_with_progress for a response whose Content-Length
\* is absent or one of the sampled sizes.
ChunkSizeInit ==
    /\ pc = "start"
    /\ header \in {Absent} \cup {Num(n) : n \in SizeSamples}
    /\ raw_remaining = Absent
    /\ download_url = TRUE
    /\ download_path = <<"clip", "mp4">>
    /\ file_size = None
    /\ estimator = <<>>
    /\ total_downloaded = 0
    /\ nchunks = 0
    /\ head_future = "none"
    /\ head_result = None
    /\ head_calls = 0
    /\ head_reads = 0
    /\ head_executor = "none"
    /\ fs = [p \in AllPaths |-> None]
    /\ moved = FALSE
    /\ history = <<>>
    /\ log_once = 0
    /\ result = "running"
    /\ raised = "none"
    /\ chunk_size = None
    /\ dpc = "off"
    /\ retries = 1
    /\ budget = 1
    /\ attempt = 0
    /\ args = [maintenance_strategy |-> "backoff", skip_status_check |-> FALSE,
               ignore |-> <<>>, include |-> <<>>]
    /\ bunkr_status = [x \in {} |-> <<"Unknown">>]
    /\ status_cache = <<>>
    /\ now = 0
    /\ task = [visible |-> TRUE]
    /\ events = <<>>
    /\ failure = <<>>
    /\ ret = "running"
    /\ workers = <<>>
    /\ NoWriters
    /\ NoWeb

\* _head_content_length returns on the executor's thread with None or one of
\* the sampled sizes.
ProbeDoneSized ==
    /\ head_future = "pending"
    /\ head_executor = "running"
    /\ \E r \in {None} \cup SizeSamples : head_result' = r
    /\ head_future' = "done"
    /\ UNCHANGED <<pc, header, raw_remaining, download_url, download_path,
                   file_size, estimator, total_downloaded, nchunks, head_calls,
                   head_reads, head_executor, fs, moved, history, log_once, result,
                   raised>>
    /\ UNCHANGED chunk_size
    /\ UNCHANGED dvars
    /\ UNCHANGED svars
    /\ UNCHANGED cvars
    /\ UNCHANGED webvars

ChunkSizeNext ==
    Resolve \/ ProbeDoneSized \/ Chunk \/ ChunkedError \/ StreamError \/ StreamEnd

SpecChunkSize == ChunkSizeInit /\ [][ChunkSizeNext]_vars

\* The length save_file_with_progress knows when it reaches line 196: the
\* positive Content-Length, else 0 for `file_size or 0`.
LengthAtStart == IF header.k = "int" /\ header.v > 0 THEN header.v ELSE 0

\* The tiers as config.py lists them.
Tier(size) ==
    IF size < 1 * MB THEN 32 * KB
    ELSE IF size < 10 * MB THEN 128 * KB
    ELSE IF size < 50 * MB THEN 512 * KB
    ELSE IF size < 100 * MB THEN 1 * MB
    ELSE IF size < 250 * MB THEN 2 * MB
    ELSE IF size < 500 * MB THEN 4 * MB
    ELSE IF size < 1 * GB THEN 8 * MB
    ELSE 16 * MB

\* C31: the chunk size of an attempt is that of the first tier whose
\* threshold is strictly greater than the length known at the start (16 MiB
\* from 1 GiB on, the larger tier for a size on a threshold), it is
\* non-decreasing in the size, an unknown length counts as size 0 (32 KiB),
\* and the chunk size stays what it was when the probe delivers the length
\* mid-stream.
C31_ChunkSizeTiers ==
    /\ pc = "start" => chunk_size = None
    /\ pc # "start" =>
         /\ chunk_size = Tier(LengthAtStart)
         /\ \A s \in SizeSamples :
              /\ s <= LengthAtStart => get_chunk_size(s) <= chunk_size
              /\ s >= LengthAtStart => get_chunk_size(s) >= chunk_size
         /\ header = Absent => chunk_size = 32 * KB
         /\ LengthAtStart >= GB => chunk_size = 16 * MB

\* A file of exactly 1 MiB streams in 128 KiB chunks.
C31_Witness ==
    /\ header = Num(MB)
    /\ chunk_size = 128 * KB
    /\ nchunks >= 1

\* The length arrived mid-stream from the probe, in another tier.
C31_MidStreamCase ==
    /\ header = Absent
    /\ file_size >= MB
    /\ chunk_size = 32 * KB
    /\ nchunks >= 2

\* --------------------------------------------- concurrent writers, one folder
\* Final paths of the files one album downloads into the same folder.
ConcurrentPaths == {<<"clip", "mp4">>, <<"clip", "jpg">>, <<"song", "mp3">>, <<"song">>}
ConcurrentAllPaths ==
    ConcurrentPaths \cup {with_suffix(p, "temp") : p \in ConcurrentPaths}

\* The temp path a worker streams into, and the inode its temp name has.
temp_path(w) == with_suffix(writers[w].download_path, "temp")

\* Each worker is handed a response for a different final path; the length is
\* known (StreamChunks bytes) or unknown.
ConcurrentInit ==
    /\ pc = "idle"
    /\ header = Absent
    /\ raw_remaining = Absent
    /\ download_url = TRUE
    /\ download_path = <<"clip", "mp4">>
    /\ file_size = None
    /\ estimator = <<>>
    /\ total_downloaded = 0
    /\ nchunks = 0
    /\ head_future = "none"
    /\ head_result = None
    /\ head_calls = 0
    /\ head_reads = 0
    /\ head_executor = "none"
    /\ fs = [p \in AllPaths |-> None]
    /\ moved = FALSE
    /\ history = <<>>
    /\ log_once = 0
    /\ result = "running"
    /\ raised = "none"
    /\ chunk_size = None
    /\ dpc = "off"
    /\ retries = 1
    /\ budget = 1
    /\ attempt = 0
    /\ args = [maintenance_strategy |-> "backoff", skip_status_check |-> FALSE,
               ignore |-> <<>>, include |-> <<>>]
    /\ bunkr_status = [x \in {} |-> <<"Unknown">>]
    /\ status_cache = <<>>
    /\ now = 0
    /\ task = [visible |-> TRUE]
    /\ events = <<>>
    /\ failure = <<>>
    /\ ret = "running"
    /\ workers = <<>>
    /\ \E paths \in [Workers -> ConcurrentPaths], sizes \in [Workers -> {None, StreamChunks}] :
         /\ \A v, w \in Workers : v # w => paths[v] # paths[w]
         /\ writers = [w \in Workers |->
                         [pc |-> "start", download_path |-> paths[w],
                          file_size |-> sizes[w], total_downloaded |-> 0, fd |-> 0,
                          result |-> "running"]]
    /\ names = [p \in ConcurrentAllPaths |-> 0]
    /\ inodes = <<>>
    /\ NoWeb

\* save_file_with_progress, lines 194-205: temp_download_path.open("wb")
\* creates the temp file, or truncates the file that has that name.
WriterOpen(w) ==
    /\ writers # <<>>
    /\ writers[w].pc = "start"
    /\ LET temp == temp_path(w)
       IN  IF names[temp] = 0
           THEN /\ inodes' = Append(inodes, {})
                /\ names' = [names EXCEPT ![temp] = Len(inodes) + 1]
                /\ writers' = [writers EXCEPT ![w].pc = "stream",
                                              ![w].fd = Len(inodes) + 1]
           ELSE /\ inodes' = [inodes EXCEPT ![names[temp]] = {}]
                /\ UNCHANGED names
                /\ writers' = [writers EXCEPT ![w].pc = "stream",
                                              ![w].fd = names[temp]]
    /\ UNCHANGED <<wvars, dvars, svars>>
    /\ UNCHANGED webvars

\* Lines 206-208: one chunk is written through the open file object.
WriterChunk(w) ==
    /\ writers # <<>>
    /\ writers[w].pc = "stream"
    /\ writers[w].total_downloaded < StreamChunks
    /\ inodes' = [inodes EXCEPT ![writers[w].fd] = @ \cup {w}]
    /\ writers' = [writers EXCEPT ![w].total_downloaded = @ + 1]
    /\ UNCHANGED names
    /\ UNCHANGED <<wvars, dvars, svars>>
    /\ UNCHANGED webvars

\* The stream ends and _finalise_download runs: shutil.move renames the temp
\* name onto the final name, and fails when the temp name is gone.
WriterEnd(w) ==
    /\ writers # <<>>
    /\ writers[w].pc = "stream"
    /\ LET temp == temp_path(w)
           f == _finalise_download(writers[w].file_size, writers[w].total_downloaded,
                                   names[temp] # 0)
       IN  /\ writers' = [writers EXCEPT ![w].pc = "done", ![w].result = f.result]
           /\ names' = IF f.moved /\ temp # writers[w].download_path
                       THEN [names EXCEPT ![writers[w].download_path] = names[temp],
                                          ![temp] = 0]
                       ELSE names
    /\ UNCHANGED inodes
    /\ UNCHANGED <<wvars, dvars, svars>>
    /\ UNCHANGED webvars

ConcurrentNext ==
    \E w \in Workers : WriterOpen(w) \/ WriterChunk(w) \/ WriterEnd(w)

SpecConcurrent == ConcurrentInit /\ [][ConcurrentNext]_vars

\* C32: two concurrent downloads with different final paths never write to
\* the same temp file: different final paths have different temp paths, a
\* worker's written bytes are in the file it streams into and in no other
\* worker's file, and a file that carries a final name was streamed by the
\* worker of that name.
C32_TempFilesDisjoint ==
    /\ \A v, w \in Workers :
         v # w => temp_path(v) # temp_path(w)
    /\ \A w \in Workers :
         writers[w].pc = "stream" /\ writers[w].total_downloaded > 0 =>
            w \in inodes[writers[w].fd]
    /\ \A i \in 1..Len(inodes) : Cardinality(inodes[i]) <= 1
    /\ \A w \in Workers :
         names[writers[w].download_path] # 0 =>
            /\ writers[w].fd = names[writers[w].download_path]
            /\ inodes[writers[w].fd] \subseteq {w}

\* The fixed stream of C33: no synchronous length, a probe is submitted, the
\* stream delivers one chunk of 2 bytes and ends normally into clip.mp4, and
\* the probe returns 4 if it returns at all; the rename is not what fails.
ShortStreamCase ==
    /\ pc = "done"
    /\ header = Absent
    /\ raw_remaining = Absent
    /\ download_url
    /\ download_path = <<"clip", "mp4">>
    /\ raised = "none"
    /\ nchunks = 1
    /\ total_downloaded = 2
    /\ head_future \in {"done", "consumed"} => head_result = 4
    /\ head_future \in {"none", "pending"} => head_result = None
    /\ ~(file_size = None /\ ~moved)

\* C33: for that stream the result does not depend on when the probe
\* completes: read in time the probe makes the length known and the 2 bytes
\* are then a partial download (needs_retry, nothing finalized), so the same
\* holds when the probe resolves after the last chunk or never.
C33_ProbeTimingIrrelevant ==
    ShortStreamCase => result = "True" /\ ~moved

\* The reference run: the probe was read before the stream ended.
C33_ProbeInTime ==
    ShortStreamCase /\ head_future = "consumed" /\ result = "True" /\ ~moved

\* C34: within one attempt the percentages reported to the progress sink
\* never decrease, the switch from estimated to exact values included: the
\* exact percentage reported when the probe is read is not below the last
\* estimate.
C34_ProgressMonotone ==
    /\ NonDecreasing(history)
    /\ \A i \in 1..(Len(history) - 1) :
         history[i].mode = "estimate" /\ history[i + 1].mode = "exact" =>
            history[i + 1].completed >= history[i].completed

\* C34 as the code has it: the percentages never decrease while the mode
\* stays the same and into the final 100; the modes follow each other as
\* estimates, then exact values, then the final report; and the one exact
\* value reported at the switch is the true percentage of the length the
\* probe delivered, which can be below the last estimate.
C34_MonotoneWithinMode ==
    /\ \A i \in 1..(Len(history) - 1) :
         /\ \/ history[i].mode = "estimate" /\ history[i + 1].mode = "exact"
            \/ history[i].completed <= history[i + 1].completed
         /\ history[i].mode = "exact" => history[i + 1].mode \in {"exact", "final"}
         /\ history[i].mode = "final" => history[i + 1].mode = "final"
    /\ (history # <<>> /\ Last(history).mode = "exact") =>
         Last(history).completed = Min(100, (total_downloaded * 100) \div file_size)

\* The probe delivered the length after 2 bytes had been estimated at 9
\* percent; the exact value fell to 0 and later exact values followed.
C34_Witness ==
    /\ Len(history) >= 3
    /\ history[1].mode = "estimate"
    /\ history[2].mode = "exact"
    /\ history[2].completed < history[1].completed
    /\ history[3].mode = "exact"
    /\ history[3].completed > history[2].completed

\* C35: a backoff sleep occurs only when another attempt follows it: every
\* sleep is followed by a further request (or the loop stands ready to send
\* it), the last allowed attempt and a decision not to retry do not sleep,
\* and one download() call sleeps at most budget - 1 times.
C35_SleepOnlyBeforeRetry ==
    /\ \A s \in SleepPositions :
         \/ \E q \in GetPositions : q > s
         \/ /\ s = Len(events)
            /\ dpc = "loop"
            /\ attempt < budget
            /\ ENABLED AttemptOk
    /\ \A p \in GetPositions :
         /\ Cardinality(SleepsIn(p)) <= 1
         /\ SleepsIn(p) # {} => events[p].n < budget - 1
    /\ LoopOver => \A s \in SleepPositions : \E q \in GetPositions : q > s
    /\ Cardinality(SleepPositions) <= budget - 1

\* All four attempts of a budget of 4 failed; three of them were slept after.
C35_Witness ==
    /\ budget = 4
    /\ dpc = "returned"
    /\ pc = "idle"
    /\ Len(Requests) = 4
    /\ Cardinality(SleepPositions) = 3
    /\ SleepsIn(CHOOSE p \in GetPositions : events[p].n = 3) = {}

\* ------------------------------------------------ claims on the final pass
\* The session status map has an entry for the link's subdomain that is not
\* "Operational".
OfflineEntry ==
    /\ get_subdomain \in DOMAIN bunkr_status
    /\ bunkr_status[get_subdomain] # Operational

\* C36: on a final pass (budget 1) with an offline entry for the subdomain,
\* download() sends no request, writes the link to the session log, hides
\* the task and returns no Deferred record, also when the file already
\* exists or is filtered out; on a non-final pass the offline entry does not
\* stop the attempt.
C36_OfflineFinalPass ==
    /\ [][(dpc = "init" /\ dpc' # "init" /\ OfflineEntry) =>
            IF budget = 1
            THEN /\ events' = <<Log("Non-operational subdomain", 0), SessionLog("link"),
                                TaskUpdate("hidden", None)>>
                 /\ ~task'.visible
                 /\ ret' = "None"
                 /\ dpc' = "returned"
            ELSE IF _skip_file_download(fs[download_path] # None, download_path, args) = "no"
            THEN /\ dpc' = "loop"
                 /\ events' = <<>>
                 /\ task'.visible
            ELSE Skipped'
         ]_vars
    /\ [](/\ (dpc = "returned" /\ Logged("Non-operational subdomain") /\ OfflineEntry) =>
               /\ GetPositions = {}
               /\ \A i \in 1..Len(events) : ~IsNetworkCall(events[i])
               /\ ret = "None"
          /\ (dpc = "loop" /\ attempt = 0 /\ events = <<>>) => ENABLED AttemptOk)

\* The final pass found the subdomain offline although the file was already
\* at its destination.
C36_Witness ==
    /\ budget = 1
    /\ OfflineEntry
    /\ fs[download_path] # None
    /\ dpc = "returned"
    /\ Logged("Non-operational subdomain")
    /\ ~task.visible

\* C37: when download() returns without a Deferred record the task is in a
\* terminal state, its last progress update being completed = 100 (success
\* or skip) or visible = false (abandoned); when it returns a Deferred record
\* the task row has not been hidden.
C37_TerminalTaskState ==
    dpc = "returned" =>
        /\ ret \in {"None", "Deferred"}
        /\ ret = "None" =>
             \/ ~task.visible
             \/ history # <<>> /\ Last(history).completed = 100
        /\ ret = "Deferred" =>
             /\ task.visible
             /\ \A i \in 1..Len(events) : events[i] # TaskUpdate("hidden", None)

\* A pass that ended in success, one abandoned on the final pass, and one
\* deferred are all of this shape; this is the successful one.
C37_Witness ==
    /\ dpc = "returned"
    /\ ret = "None"
    /\ result = "False"
    /\ task.visible
    /\ Last(history).completed = 100
    /\ Len(Requests) = 2

\* ------------------------------------------------------ the job event broker
\* src/src/web/app.py, JobEventBroker.  The broker lives on one asyncio loop:
\* _broadcast, subscribe() and the HTTP handlers run on the loop thread, one
\* at a time, and give up the loop only at an await that suspends.  Other
\* threads reach the broker through loop.call_soon_threadsafe, whose
\* callbacks the loop runs in the order they were handed over.

\* No download call, status refresh or concurrent writer is in progress.
NoDownloadCall ==
    /\ pc = "idle"
    /\ header = Absent
    /\ raw_remaining = Absent
    /\ download_url = TRUE
    /\ download_path = <<"clip", "mp4">>
    /\ file_size = None
    /\ estimator = <<>>
    /\ total_downloaded = 0
    /\ nchunks = 0
    /\ head_future = "none"
    /\ head_result = None
    /\ head_calls = 0
    /\ head_reads = 0
    /\ head_executor = "none"
    /\ fs = [p \in AllPaths |-> None]
    /\ moved = FALSE
    /\ history = <<>>
    /\ log_once = 0
    /\ result = "running"
    /\ raised = "none"
    /\ chunk_size = None
    /\ dpc = "off"
    /\ retries = 1
    /\ budget = 1
    /\ attempt = 0
    /\ args = [maintenance_strategy |-> "backoff", skip_status_check |-> FALSE,
               ignore |-> <<>>, include |-> <<>>]
    /\ bunkr_status = [x \in {} |-> <<"Unknown">>]
    /\ status_cache = <<>>
    /\ now = 0
    /\ task = [visible |-> TRUE]
    /\ events = <<>>
    /\ failure = <<>>
    /\ ret = "running"
    /\ workers = <<>>
    /\ NoWriters

\* Who calls publish(): code running on the broker's loop, or a worker thread.
Publishers == {"loop", "thread1"}

\* The consumers of subscribe(): one WebSocket connection each.
Subscribers == {"ws1", "ws2"}

\* JobEventBroker.__init__, lines 123-126.
JobEventBroker == [_events |-> <<>>, _subscribers |-> <<>>]

\* A variant of _broadcast that hands the event to the subscribers without
\* retaining it.
_broadcast_unbuffered(broker, event) ==
    [broker EXCEPT !._subscribers =
        [q \in DOMAIN @ |-> Append(@[q], event)]]

\* _broadcast, lines 134-139: append to _events, then put_nowait into the
\* queue of every subscriber.
_broadcast(broker, event) ==
    [_events |-> Append(broker._events, event),
     _subscribers |-> [q \in DOMAIN broker._subscribers |->
                          Append(broker._subscribers[q], event)]]

\* A variant of get_events whose slice starts one element late.
get_events_late(broker, start_index) ==
    IF start_index <= 0
    THEN broker._events
    ELSE SubSeq(broker._events, start_index + 2, Len(broker._events))

\* get_events, lines 153-157: the whole buffer for start_index <= 0, else
\* the slice _events[start_index:].
get_events(broker, start_index) ==
    IF start_index <= 0
    THEN broker._events
    ELSE SubSeq(broker._events, start_index + 1, Len(broker._events))

BrokerInit ==
    /\ NoDownloadCall
    /\ event_broker = JobEventBroker
    /\ ready = <<>>
    /\ subscribers = [s \in Subscribers |->
                        [pc |-> "idle", replayed |-> 0, received |-> <<>>]]
    /\ calls = <<>>
    /\ client = [since |-> 0, seen |-> <<>>, polls |-> 0]
    /\ NoJobs

\* publish, lines 141-151: on the broker's loop the event is broadcast at
\* once; from any other thread get_running_loop() raises or returns another
\* loop and the broadcast is handed to the loop with call_soon_threadsafe.
Publish(by) ==
    /\ Len(calls) < MaxEvents
    /\ LET event == [by |-> by, n |-> Len(calls) + 1] IN
        /\ calls' = Append(calls, event)
        /\ IF by = "loop"
           THEN /\ event_broker' = _broadcast(event_broker, event)
                /\ UNCHANGED ready
           ELSE /\ ready' = Append(ready, event)
                /\ UNCHANGED event_broker
    /\ UNCHANGED <<subscribers, client>>
    /\ UNCHANGED <<wvars, dvars, svars, cvars, jvars>>

\* The loop runs the oldest call_soon_threadsafe callback: _broadcast(event).
RunCallback ==
    /\ ready # <<>>
    /\ event_broker' = _broadcast(event_broker, Head(ready))
    /\ ready' = Tail(ready)
    /\ UNCHANGED <<subscribers, calls, client>>
    /\ UNCHANGED <<wvars, dvars, svars, cvars, jvars>>

\* subscribe, lines 159-166, up to the first queue.get(): asyncio.Queue()
\* has no maxsize, so no "await queue.put(event)" of the replay suspends and
\* the replay and _subscribers.add(queue) are one step of the loop.
Subscribe(s) ==
    /\ subscribers[s].pc = "idle"
    /\ LET queue == event_broker._events IN
        event_broker' = [event_broker EXCEPT !._subscribers = (s :> queue) @@ @]
    /\ subscribers' = [subscribers EXCEPT ![s].pc = "listening",
                                          ![s].replayed = Len(event_broker._events)]
    /\ UNCHANGED <<ready, calls, client>>
    /\ UNCHANGED <<wvars, dvars, svars, cvars, jvars>>

\* subscribe, lines 167-169: "yield await queue.get()" hands the oldest
\* queued event to job_updates (lines 571-573).
Receive(s) ==
    /\ subscribers[s].pc = "listening"
    /\ event_broker._subscribers[s] # <<>>
    /\ subscribers' = [subscribers EXCEPT ![s].received =
                          Append(@, Head(event_broker._subscribers[s]))]
    /\ event_broker' = [event_broker EXCEPT !._subscribers[s] = Tail(@)]
    /\ UNCHANGED <<ready, calls, client>>
    /\ UNCHANGED <<wvars, dvars, svars, cvars, jvars>>

\* subscribe, lines 170-171: the generator is closed after the WebSocket
\* went away and its queue leaves _subscribers.
Disconnect(s) ==
    /\ subscribers[s].pc = "listening"
    /\ subscribers' = [subscribers EXCEPT ![s].pc = "closed"]
    /\ event_broker' = [event_broker EXCEPT !._subscribers =
                           [q \in DOMAIN @ \ {s} |-> @[q]]]
    /\ UNCHANGED <<ready, calls, client>>
    /\ UNCHANGED <<wvars, dvars, svars, cvars, jvars>>

\* get_download_events, lines 524-534: the client asks for the events from
\* its last next_index on.  A poll that returns nothing leaves next_index
\* where it was.
Poll ==
    /\ LET events_ == get_events(event_broker, client.since)
           next_index == client.since + Len(events_)
       IN  /\ events_ # <<>>
           /\ client' = [since |-> next_index,
                         seen |-> client.seen \o events_,
                         polls |-> client.polls + 1]
    /\ UNCHANGED <<event_broker, ready, subscribers, calls>>
    /\ UNCHANGED <<wvars, dvars, svars, cvars, jvars>>

BrokerNext ==
    \/ \E by \in Publishers : Publish(by)
    \/ RunCallback
    \/ \E s \in Subscribers : Subscribe(s)
    \/ \E s \in Subscribers : Receive(s)
    \/ \E s \in Subscribers : Disconnect(s)
    \/ Poll

SpecBroker == BrokerInit /\ [][BrokerNext]_vars

IsPrefix(s, t) == Len(s) <= Len(t) /\ SubSeq(t, 1, Len(s)) = s

Occurrences(seq, e) == Cardinality({i \in 1..Len(seq) : seq[i] = e})

\* C38: every subscriber receives each published event exactly once and in
\* publication order, the events buffered before it subscribed first and the
\* live ones after them: what a listening subscriber has received, followed
\* by what waits in its queue, is the broker's buffer, and what a closed one
\* received is a prefix of it.  No event is lost or duplicated on the way to
\* the buffer, whether published on the loop or handed over by a thread
\* while a subscription is set up: each publish() call is in the buffer or
\* among the loop's pending callbacks exactly once, and the events of one
\* publisher keep the order of its calls.  A client that polls
\* get_events(since) with the next_index of its previous poll has seen the
\* first next_index events of the buffer, each once.
C38_ExactlyOnceInOrder ==
    LET buffer == event_broker._events IN
    /\ \A s \in Subscribers :
        /\ subscribers[s].pc = "idle" => subscribers[s].received = <<>>
        /\ subscribers[s].pc = "listening" =>
             /\ s \in DOMAIN event_broker._subscribers
             /\ subscribers[s].received \o event_broker._subscribers[s] = buffer
             /\ subscribers[s].replayed <= Len(buffer)
        /\ subscribers[s].pc = "closed" =>
             /\ s \notin DOMAIN event_broker._subscribers
             /\ IsPrefix(subscribers[s].received, buffer)
    /\ Len(buffer) + Len(ready) = Len(calls)
    /\ \A i \in 1..Len(calls) : Occurrences(buffer \o ready, calls[i]) = 1
    /\ \A i, j \in 1..Len(buffer) :
         (i < j /\ buffer[i].by = buffer[j].by) => buffer[i].n < buffer[j].n
    /\ client.since <= Len(buffer)
    /\ client.seen = SubSeq(buffer, 1, client.since)

\* A subscription set up while a thread's event waited among the loop's
\* callbacks: the subscriber replayed the one buffered event, received the
\* thread's event and a later one live, and the polling client caught up in
\* two polls.
C38_Witness ==
    LET buffer == event_broker._events IN
    /\ Len(buffer) = 3
    /\ buffer[1] = [by |-> "loop", n |-> 2]
    /\ buffer[2] = [by |-> "thread1", n |-> 1]
    /\ subscribers["ws1"].pc = "listening"
    /\ subscribers["ws1"].replayed = 1
    /\ subscribers["ws1"].received = buffer
    /\ subscribers["ws2"].pc = "closed"
    /\ subscribers["ws2"].received = SubSeq(buffer, 1, 2)
    /\ client.polls = 2
    /\ client.since = 3

\* ------------------------------------------------------------ the web jobs
\* src/src/web/app.py, start_download and _run_download_job, and
\* src/src/config.py, update_network_settings.  Every job is a task of the
\* one asyncio loop: a step runs from one suspending await to the next.

Jobs == {"job1", "job2"}

\* A falsy str | None argument: None or the empty string.
Falsy == ""

\* request.network: <<>> (None) or <<NetworkOverrides>>.  A NetworkOverrides
\* object is truthy whatever its fields are.
NetworkSamples ==
    { <<>>,
      <<[status_page |-> Falsy, api_endpoint |-> Falsy, download_referer |-> Falsy,
         user_agent |-> Falsy, fallback_domain |-> Falsy]>>,
      <<[status_page |-> Falsy, api_endpoint |-> Falsy, download_referer |-> Falsy,
         user_agent |-> "custom", fallback_domain |-> Falsy]>>,
      <<[status_page |-> "custom", api_endpoint |-> "custom", download_referer |-> "custom",
         user_agent |-> "custom", fallback_domain |-> "custom"]>> }

\* config.py at import time: STATUS_PAGE, BUNKR_API, FALLBACK_DOMAIN and the
\* two header dictionaries.
DefaultConfig ==
    [STATUS_PAGE |-> "default", BUNKR_API |-> "default", FALLBACK_DOMAIN |-> "default",
     HEADERS |-> [UserAgent |-> "default"],
     DOWNLOAD_HEADERS |-> [UserAgent |-> "default", Referer |-> "default"]]

\* A variant of update_network_settings that leaves the module as it is.
update_network_settings_nowhere(cfg, o) == cfg

\* update_network_settings, lines 181-208: every truthy argument is written
\* to the module globals or into the shared header dictionaries.
update_network_settings(cfg, o) ==
    [STATUS_PAGE |-> IF o.status_page # Falsy THEN o.status_page ELSE cfg.STATUS_PAGE,
     BUNKR_API |-> IF o.api_endpoint # Falsy THEN o.api_endpoint ELSE cfg.BUNKR_API,
     FALLBACK_DOMAIN |-> IF o.fallback_domain # Falsy THEN o.fallback_domain
                         ELSE cfg.FALLBACK_DOMAIN,
     HEADERS |-> IF o.user_agent # Falsy THEN [UserAgent |-> o.user_agent]
                 ELSE cfg.HEADERS,
     DOWNLOAD_HEADERS |->
        [UserAgent |-> IF o.user_agent # Falsy THEN o.user_agent
                       ELSE cfg.DOWNLOAD_HEADERS.UserAgent,
         Referer |-> IF o.download_referer # Falsy THEN o.download_referer
                     ELSE cfg.DOWNLOAD_HEADERS.Referer]]

\* bunkr_utils.py, lines 12, 21 and 33: get_bunkr_status fetches the
\* STATUS_PAGE that bunkr_utils bound when it was imported, with the shared
\* HEADERS dictionary.
status_request(cfg) ==
    [request |-> "status", url |-> DefaultConfig.STATUS_PAGE,
     user_agent |-> cfg.HEADERS.UserAgent, referer |-> Falsy]

\* media_downloader.py, line 65, and download_utils.py, line 62: the
\* download requests carry the shared DOWNLOAD_HEADERS dictionary.
download_request(cfg) ==
    [request |-> "download", url |-> "media",
     user_agent |-> cfg.DOWNLOAD_HEADERS.UserAgent,
     referer |-> cfg.DOWNLOAD_HEADERS.Referer]

\* _status_event and the log payload of WebLiveManager.update_log.
StatusEvent(status) == [type |-> "status", event |-> status]
LogEvent(event) == [type |-> "log", event |-> event]

\* publish() on the broker's own loop, once per event.
RECURSIVE publish_all(_, _)
publish_all(broker, evs) ==
    IF evs = <<>> THEN broker
    ELSE publish_all(_broadcast(broker, Head(evs)), Tail(evs))

\* Job(...) before start_download: no such job yet.
NoJob ==
    [status |-> "absent", pc |-> "absent", urls |-> 0, index |-> 0, network |-> <<>>,
     event_broker |-> JobEventBroker, error |-> Falsy, raised |-> FALSE,
     observed |-> {}]

\* A variant of the except block that publishes the status before it stops
\* the manager.
job_failed_status_first(job) ==
    [job EXCEPT !.status = "failed",
                !.error = "exc",
                !.raised = TRUE,
                !.pc = "done",
                !.event_broker = publish_all(@, <<LogEvent("Download failed"),
                                                  StatusEvent("failed"),
                                                  LogEvent("Script ended")>>)]

\* _run_download_job, lines 461-467: the except block.
job_failed(job) ==
    [job EXCEPT !.status = "failed",
                !.error = "exc",
                !.raised = TRUE,
                !.pc = "done",
                !.event_broker = publish_all(@, <<LogEvent("Download failed"),
                                                  LogEvent("Script ended"),
                                                  StatusEvent("failed")>>)]

\* _run_download_job, lines 446-459: the head of the next iteration of the
\* URL loop up to its await, or, when no URL is left, manager.stop() and
\* the COMPLETED status.
job_continues(job) ==
    IF job.index < job.urls
    THEN [job EXCEPT !.pc = "urls",
                     !.event_broker =
                         IF job.urls > 1
                         THEN publish_all(@, <<LogEvent("Processing URL")>>)
                         ELSE @]
    ELSE [job EXCEPT !.status = "completed",
                     !.pc = "done",
                     !.event_broker = publish_all(@, <<LogEvent("Script ended"),
                                                       StatusEvent("completed")>>)]

JobsInit ==
    /\ NoDownloadCall
    /\ NoBroker
    /\ jobs = [j \in Jobs |-> NoJob]
    /\ config = DefaultConfig

\* start_download, lines 496-504: the Job and its WebLiveManager are
\* created (lines 345-347 and 189-194), the PENDING status is published and
\* the task is scheduled.
StartDownload(j) ==
    /\ jobs[j].pc = "absent"
    /\ \E n \in 1..MaxUrls, network \in NetworkSamples :
         jobs' = [jobs EXCEPT ![j] =
            [NoJob EXCEPT !.status = "pending",
                          !.pc = "scheduled",
                          !.urls = n,
                          !.network = network,
                          !.event_broker =
                              publish_all(@, <<LogEvent("Script started"),
                                               LogEvent("Log level"),
                                               StatusEvent("pending")>>)]]
    /\ UNCHANGED config
    /\ UNCHANGED <<wvars, dvars, svars, cvars, bvars>>

\* _run_download_job, lines 429-441: RUNNING, the overrides of the request
\* go to update_network_settings, and the task waits for the thread that
\* runs get_bunkr_status.
RunJob(j) ==
    /\ jobs[j].pc = "scheduled"
    /\ jobs' = [jobs EXCEPT ![j].status = "running",
                            ![j].pc = "status",
                            ![j].event_broker =
                                publish_all(@, <<StatusEvent("running")>>)]
    /\ config' = IF jobs[j].network # <<>>
                 THEN update_network_settings(config, jobs[j].network[1])
                 ELSE config
    /\ UNCHANGED <<wvars, dvars, svars, cvars, bvars>>

\* _run_download_job, lines 441-449: get_bunkr_status has made its request
\* and returned, or raised; the task goes on to the first URL or to the
\* except block.
StatusFetched(j) ==
    /\ jobs[j].pc = "status"
    /\ \E outcome \in {"return", "raise"} :
        LET job == [jobs[j] EXCEPT !.observed = @ \cup {status_request(config)}] IN
        jobs' = [jobs EXCEPT ![j] = IF outcome = "raise" THEN job_failed(job)
                                    ELSE job_continues(job)]
    /\ UNCHANGED config
    /\ UNCHANGED <<wvars, dvars, svars, cvars, bvars>>

\* _run_download_job, lines 455-459: validate_and_download has made its
\* requests for one URL and returned, or raised.
ProcessUrl(j) ==
    /\ jobs[j].pc = "urls"
    /\ \E outcome \in {"return", "raise"} :
        LET job == [jobs[j] EXCEPT !.observed = @ \cup {download_request(config)}] IN
        jobs' = [jobs EXCEPT ![j] =
                    IF outcome = "raise" THEN job_failed(job)
                    ELSE job_continues([job EXCEPT !.index = @ + 1])]
    /\ UNCHANGED config
    /\ UNCHANGED <<wvars, dvars, svars, cvars, bvars>>

JobsNext ==
    \/ \E j \in Jobs : StartDownload(j)
    \/ \E j \in Jobs : RunJob(j)
    \/ \E j \in Jobs : StatusFetched(j)
    \/ \E j \in Jobs : ProcessUrl(j)

SpecJobs == JobsInit /\ [][JobsNext]_vars

\* The loop runs every scheduled task, the status thread ends, and every
\* validate_and_download returns or raises.
SpecJobsFair ==
    /\ JobsInit
    /\ [][JobsNext]_vars
    /\ \A j \in Jobs : /\ WF_vars(RunJob(j))
                       /\ WF_vars(StatusFetched(j))
                       /\ WF_vars(ProcessUrl(j))

TerminalStatuses == {"completed", "failed"}

\* The status events a job's broker has published, in order.
StatusesPublished(j) ==
    LET buffer == jobs[j].event_broker._events
        RECURSIVE pick(_)
        pick(i) == IF i > Len(buffer) THEN <<>>
                   ELSE IF buffer[i].type = "status"
                        THEN <<buffer[i].event>> \o pick(i + 1)
                        ELSE pick(i + 1)
    IN pick(1)

\* Where an event is in the job's buffer.
PositionsOf(j, e) ==
    {i \in 1..Len(jobs[j].event_broker._events) : jobs[j].event_broker._events[i] = e}

JobStateOk(j) ==
    LET job == jobs[j]
        buffer == job.event_broker._events
        statuses == StatusesPublished(j)
    IN
    /\ job.status \in {"absent", "pending", "running"} \cup TerminalStatuses
    /\ job.status = "completed" => (job.index = job.urls /\ ~job.raised)
    /\ job.raised <=> job.status = "failed"
    /\ job.status = "absent" => statuses = <<>>
    /\ job.status = "pending" => statuses = <<"pending">>
    /\ job.status = "running" => statuses = <<"pending", "running">>
    /\ job.status \in TerminalStatuses =>
         /\ statuses = <<"pending", "running", job.status>>
         /\ Last(buffer) = StatusEvent(job.status)
         /\ \E i \in PositionsOf(j, LogEvent("Script ended")) :
              PositionsOf(j, LogEvent("Script ended")) = {i} /\ i = Len(buffer) - 1

StatusStepOk(j) ==
    jobs'[j].status # jobs[j].status =>
        <<jobs[j].status, jobs'[j].status>> \in
            {<<"absent", "pending">>, <<"pending", "running">>,
             <<"running", "completed">>, <<"running", "failed">>}

DefaultRequests == {status_request(DefaultConfig), download_request(DefaultConfig)}

\* C40: the network overrides supplied with one web job affect only that
\* job: every request of a job submitted without overrides, whether it
\* runs next to the overriding job or starts after it, observes the
\* settings it would observe had the other job never been submitted, which
\* are the defaults.
C40_OverridesScoped ==
    \A j \in Jobs :
        jobs[j].network = <<>> => jobs[j].observed \subseteq DefaultRequests

\* The overriding job has ended, the module still carries its overrides,
\* and a job without overrides that was submitted afterwards is about to
\* make its first request.
OverridesOutliveJob ==
    /\ jobs["job1"].pc = "done"
    /\ jobs["job1"].network # <<>>
    /\ jobs["job2"].network = <<>>
    /\ jobs["job2"].pc = "status"
    /\ jobs["job2"].observed = {}
    /\ config # DefaultConfig
====
